---- MODULE Spec2Model ----
(***************************************************************************)
(* otlp-data-analyzer: the OTLP record extractor (common/otlp_parser.py),  *)
(* the timestamp normalizer (common/timestamp_parser.py) and the           *)
(* otlp-check-timestamp tool (tools/check_timestamp.py).                   *)
(*                                                                         *)
(* Python integers are unbounded; they are kept here as a sign and a       *)
(* sequence of decimal digits, so that the thresholds 10^10 and 10^13 and  *)
(* nanosecond values around 10^18 are exact.  Python floats are IEEE 754    *)
(* doubles, kept as a significand below 2^53 and a binary exponent, with   *)
(* every operation rounded to nearest, ties to even.  Texts are sequences  *)
(* of one-character strings.                                               *)
(***************************************************************************)
EXTENDS Integers, Sequences, FiniteSets, TLC

VARIABLES
    start, end, verbose, quiet,   \* main's arguments (click options)
    pc,                           \* position in main
    start_ns, end_ns,             \* normalized boundaries
    raised,                       \* the exception that left main's try block, "none" if none did
    summary, has_issues,          \* process_stream's locals
    line_number, line,            \* the loop variables of process_stream: 1-based position and text of the line last read
    parsed,                       \* what parse_otlp_line made of that line
    results,                      \* the CheckResults of the records of that line
    failed_lines,                 \* number of lines read so far whose extraction raised
    output,                       \* what click.echo wrote to stdout, in order
    exit_code                     \* the process exit status, -1 while running

vars == <<start, end, verbose, quiet, pc, start_ns, end_ns, raised, summary, has_issues,
          line_number, line, parsed, results, failed_lines, output, exit_code>>

-----------------------------------------------------------------------------
(* Bounds *)

\* Number of leaves (log record elements and dead-end branches) of a generated resourceLogs array.
MaxLeaves == 3
\* Number of lines of the input stream.
MaxLines == 2

-----------------------------------------------------------------------------
(* Python values: None, bool and int *)

PyNone == [py |-> "None"]
PyBool(b) == [py |-> "bool", b |-> b]

\* The digits without leading zeros.
StripZeros(mag) ==
    LET nonzero == {i \in 1..Len(mag) : mag[i] /= 0}
    IN  IF nonzero = {} THEN <<>>
        ELSE SubSeq(mag, CHOOSE i \in nonzero : \A j \in nonzero : i <= j, Len(mag))

\* The integer with the given sign and decimal digits (most significant first).
PyInt(neg, mag) ==
    LET m == StripZeros(mag)
    IN  [py |-> "int", neg |-> (neg /\ m /= <<>>), mag |-> m]

\* The decimal digits of a machine integer n >= 0.
NatDigits(n) ==
    LET len == IF n >= 10^9 THEN 10
               ELSE CHOOSE k \in 1..9 : n < 10^k /\ (k = 1 \/ n >= 10^(k - 1))
    IN  [i \in 1..len |-> (n \div 10^(len - i)) % 10]

\* A small machine integer as a Python int.
IntOf(n) == IF n < 0 THEN PyInt(TRUE, NatDigits(-n)) ELSE PyInt(FALSE, NatDigits(n))

Zeros(k) == [i \in 1..k |-> 0]

\* x * 10^k
MulPow10(x, k) == PyInt(x.neg, x.mag \o Zeros(k))

\* 10^k
Pow10(k) == PyInt(FALSE, <<1>> \o Zeros(k))

MagLess(a, b) ==
    \/ Len(a) < Len(b)
    \/ /\ Len(a) = Len(b)
       /\ \E i \in 1..Len(a) : a[i] < b[i] /\ \A j \in 1..(i - 1) : a[j] = b[j]

\* bool is a subclass of int: True is 1 and False is 0 in comparisons.
AsInt(v) == IF v.py = "bool" THEN IntOf(IF v.b THEN 1 ELSE 0) ELSE v

\* x < y on Python ints
Less(x, y) ==
    LET a == AsInt(x)
        b == AsInt(y)
    IN  CASE a.neg /\ ~b.neg -> TRUE
          [] ~a.neg /\ b.neg -> FALSE
          [] ~a.neg /\ ~b.neg -> MagLess(a.mag, b.mag)
          [] OTHER -> MagLess(b.mag, a.mag)

\* a - b for digit sequences with a >= b. Digit i borrows when a lower digit of
\* a is smaller than b's and the digits between them are equal.
MagSub(a, b) ==
    LET n == Len(a)
        y == Zeros(n - Len(b)) \o b
        Borrow(i) == \E j \in (i + 1)..n :
                         a[j] < y[j] /\ \A k \in (i + 1)..(j - 1) : a[k] = y[k]
    IN  [i \in 1..n |-> (a[i] - y[i] - (IF Borrow(i) THEN 1 ELSE 0) + 10) % 10]

\* a + b for digit sequences. Digit i receives a carry when two lower digits
\* sum to ten or more and the sums between them are all nine.
MagAdd(a, b) ==
    LET n == IF Len(a) >= Len(b) THEN Len(a) ELSE Len(b)
        x == Zeros(n - Len(a)) \o a
        y == Zeros(n - Len(b)) \o b
        Carry(i) == \E j \in (i + 1)..n :
                        x[j] + y[j] >= 10 /\ \A k \in (i + 1)..(j - 1) : x[k] + y[k] = 9
        digits == [i \in 1..n |-> (x[i] + y[i] + (IF Carry(i) THEN 1 ELSE 0)) % 10]
    IN  IF Carry(0) THEN <<1>> \o digits ELSE digits

\* x - y on Python ints
Minus(x, y) ==
    LET a == AsInt(x)
        b == AsInt(y)
    IN  IF a.neg /= b.neg THEN PyInt(a.neg, MagAdd(a.mag, b.mag))
        ELSE IF MagLess(a.mag, b.mag) THEN PyInt(~a.neg, MagSub(b.mag, a.mag))
        ELSE PyInt(a.neg, MagSub(a.mag, b.mag))

\* x + y on Python ints
Plus(x, y) ==
    LET b == AsInt(y)
    IN  Minus(x, [b EXCEPT !.neg = ~b.neg /\ b.mag /= <<>>])

\* The multiples 0 * a, 1 * a, ..., k * a, at positions 1 .. k + 1.
RECURSIVE Multiples(_, _)
Multiples(a, k) ==
    IF k = 0 THEN << <<>> >>
    ELSE LET prev == Multiples(a, k - 1)
         IN  Append(prev, StripZeros(MagAdd(prev[k], a)))

\* a * c for one digit c
MagMulDigit(a, c) == Multiples(a, c)[c + 1]

\* a * b for digit sequences: the digits of b by halves
RECURSIVE MagMul(_, _)
MagMul(a, b) ==
    IF a = <<>> \/ b = <<>> THEN <<>>
    ELSE IF Len(b) = 1 THEN MagMulDigit(a, b[1])
    ELSE LET h == Len(b) \div 2
             high == MagMul(a, SubSeq(b, 1, h))
             low == MagMul(a, SubSeq(b, h + 1, Len(b)))
         IN  StripZeros(MagAdd(high \o Zeros(Len(b) - h), low))

\* x * c on Python ints, c a machine integer >= 0
TimesSmall(x, c) == PyInt(x.neg, MagMul(x.mag, NatDigits(c)))

\* The digits of 2^k, from machine powers up to 2^MachinePower
MachinePower == 30

RECURSIVE MagPow2(_)
MagPow2(k) ==
    IF k <= MachinePower THEN NatDigits(2^k)
    ELSE MagMul(MagPow2(k \div 2), MagPow2(k - k \div 2))

\* a * 2^k
MagShl(a, k) == MagMul(a, MagPow2(k))

MagLeq(a, b) == ~MagLess(b, a)

\* One step of long division by d, given the multiples 0 * d .. 10 * d at
\* positions 1 .. 11 and a running remainder r1 < 10 * d: the quotient digit
\* and the remainder it leaves.
DivStep(multiples, r1) ==
    LET c == CHOOSE k \in 0..9 : MagLeq(multiples[k + 1], r1) /\ MagLess(r1, multiples[k + 2])
    IN  [q |-> <<c>>, r |-> StripZeros(MagSub(r1, multiples[c + 1]))]

\* Long division of the digits n, given the multiples of the divisor and the
\* remainder r left by the digits before n: the quotient digits and the
\* remainder. The digits are divided by halves, the high half first.
RECURSIVE MagDivModFrom(_, _, _)
MagDivModFrom(n, multiples, r) ==
    IF Len(n) = 0 THEN [q |-> <<>>, r |-> r]
    ELSE IF Len(n) = 1 THEN DivStep(multiples, StripZeros(Append(r, n[1])))
    ELSE LET h == Len(n) \div 2
             high == MagDivModFrom(SubSeq(n, 1, h), multiples, r)
             low == MagDivModFrom(SubSeq(n, h + 1, Len(n)), multiples, high.r)
         IN  [q |-> high.q \o low.q, r |-> low.r]

DivModBy(n, multiples) ==
    IF MagLess(n, multiples[2]) THEN [q |-> <<>>, r |-> n]
    ELSE [MagDivModFrom(n, multiples, <<>>) EXCEPT !.q = StripZeros(@)]

\* divmod(n, d) for digit sequences, d > 0
MagDivMod(n, d) == DivModBy(n, Multiples(d, 10))

MagIsOdd(a) == a /= <<>> /\ a[Len(a)] % 2 = 1

\* A quotient and remainder of a division by d, rounded to the nearest integer, ties to the even one.
RoundHalfEven(qr, d) ==
    LET twice == StripZeros(MagAdd(qr.r, qr.r))
    IN  IF MagLess(d, twice) \/ (twice = d /\ MagIsOdd(qr.q))
        THEN StripZeros(MagAdd(qr.q, <<1>>))
        ELSE qr.q

\* n / d rounded to the nearest integer, ties to the even one.
MagDivRoundHalfEven(n, d) == RoundHalfEven(MagDivMod(n, d), d)

-----------------------------------------------------------------------------
(* Python floats: IEEE 754 doubles, kept exactly as m * 2^e with m < 2^53 *)

PyFloat(neg, m, e) == [py |-> "float", kind |-> "finite", neg |-> neg, m |-> m, e |-> e]
PyInf(neg) == [py |-> "float", kind |-> "inf", neg |-> neg, m |-> <<>>, e |-> 0]

\* Precision of a double (bits of the significand) and its largest binary exponent.
MantissaBits == 53
MaxBinaryExponent == 1024
\* Decimal magnitudes beyond which every value overflows to inf or rounds to zero.
MaxDecimalExponent == 309
MinDecimalExponent == -330

\* Scale n and p until p <= n < 2p; value = (n / p) * 2^(MantissaBits - 1 + e) throughout.
RECURSIVE Normalize(_)
Normalize(v) ==
    IF MagLeq(MagAdd(v.p, v.p), v.n)
    THEN Normalize([n |-> v.n, p |-> MagAdd(v.p, v.p), e |-> v.e + 1])
    ELSE IF MagLess(v.n, v.p)
    THEN Normalize([n |-> MagAdd(v.n, v.n), p |-> v.p, e |-> v.e - 1])
    ELSE v

\* n / d = (n / p) * 2^(MantissaBits - 1 + e) with the power of two 2^k moved
\* to the side that keeps both numbers integers.
Scaled(n, d, k) ==
    [n |-> IF k < 0 THEN MagShl(n, -k) ELSE n,
     p |-> IF k < 0 THEN d ELSE MagShl(d, k),
     e |-> k - (MantissaBits - 1)]

\* The double with significand m and exponent e; inf when it does not fit the
\* exponent range (m = 2^MantissaBits is a significand that rounded up to the
\* next power of two).
Packed(neg, m, e) ==
    IF e + MantissaBits + (IF m = MagPow2(MantissaBits) THEN 1 ELSE 0) > MaxBinaryExponent
    THEN PyInf(neg)
    ELSE PyFloat(neg, m, e)

\* The double nearest to (v.n / v.p) * 2^(MantissaBits - 1 + v.e), for v.p <= v.n < 2 * v.p.
Rounded(neg, v) ==
    Packed(neg, MagDivRoundHalfEven(MagShl(v.n, MantissaBits - 1), v.p), v.e)

\* The double nearest to n / d (round to nearest, ties to even), n > 0 and d > 0.
\* The scaling starts from a power of two near n / d, estimated from the lengths
\* of n and d (3321 / 1000 bits for a decimal digit), and Normalize corrects it.
RoundToDouble(neg, n, d) ==
    Rounded(neg, Normalize(Scaled(n, d, ((Len(n) - Len(d) - 1) * 3321) \div 1000)))

\* The double nearest to mag * 10^exp10.
DoubleOfDecimal(neg, mag, exp10) ==
    IF mag = <<>> THEN PyFloat(neg, <<>>, 0)
    ELSE IF Len(mag) + exp10 > MaxDecimalExponent THEN PyInf(neg)
    ELSE IF Len(mag) + exp10 < MinDecimalExponent THEN PyFloat(neg, <<>>, 0)
    ELSE RoundToDouble(neg, mag \o Zeros(IF exp10 > 0 THEN exp10 ELSE 0),
                       <<1>> \o Zeros(IF exp10 < 0 THEN -exp10 ELSE 0))

\* float < int, compared exactly as Python does; y > 0
FloatLessInt(x, y) ==
    IF x.kind = "inf" THEN x.neg
    ELSE IF x.neg \/ x.m = <<>> THEN TRUE
    ELSE IF x.e >= 0 THEN MagLess(MagShl(x.m, x.e), y.mag)
    ELSE MagLess(x.m, MagShl(y.mag, -x.e))

\* x * 1e9 or x * 1e6: the exact product rounded to a double (10^k is a double for these k).
FloatTimesPow10(x, k) ==
    IF x.kind = "inf" \/ x.m = <<>> THEN x
    ELSE RoundToDouble(x.neg, MagShl(x.m \o Zeros(k), IF x.e > 0 THEN x.e ELSE 0),
                       MagPow2(IF x.e < 0 THEN -x.e ELSE 0))

\* round(float): the nearest int, ties to even; OverflowError for an infinity.
round(x) ==
    IF x.kind = "inf" THEN [raised |-> "OverflowError", value |-> PyNone]
    ELSE IF x.m = <<>> THEN [raised |-> "none", value |-> PyInt(FALSE, <<>>)]
    ELSE IF x.e >= 0 THEN [raised |-> "none", value |-> PyInt(x.neg, MagShl(x.m, x.e))]
    ELSE [raised |-> "none",
          value |-> PyInt(x.neg, MagDivRoundHalfEven(x.m, MagPow2(-x.e)))]

\* int / int (true division): the double nearest to the quotient; d > 0
TrueDivide(x, d) ==
    IF x.mag = <<>> THEN PyFloat(FALSE, <<>>, 0) ELSE RoundToDouble(x.neg, x.mag, d.mag)

\* The exact value of a finite double x >= 0 as a fraction of two integers.
Numerator(x) == IF x.e > 0 THEN MagShl(x.m, x.e) ELSE x.m
Denominator(x) == MagPow2(IF x.e < 0 THEN -x.e ELSE 0)

\* The double nearest to n / d, for n >= 0 and d > 0.
DoubleOfRatio(n, d) == IF n = <<>> THEN PyFloat(FALSE, <<>>, 0) ELSE RoundToDouble(FALSE, n, d)

\* float(n) for an int n >= 0: the nearest double; inf stands for the
\* OverflowError of an int beyond the range of a double (every int of more
\* than MaxDecimalExponent digits is).
DoubleOfInt(mag) ==
    IF Len(mag) > MaxDecimalExponent THEN PyInf(FALSE) ELSE DoubleOfRatio(mag, <<1>>)

\* floor(div), and one more when div - floor(div) > 0.5, as float_divmod
\* computes the quotient from div = (x - mod) / w.
FloorOfQuotient(qr, d) ==
    IF MagLess(d, StripZeros(MagAdd(qr.r, qr.r))) THEN StripZeros(MagAdd(qr.q, <<1>>)) ELSE qr.q

\* int() of the quotient that float_divmod makes of div.
FloorOfDouble(div) ==
    PyInt(FALSE, FloorOfQuotient(MagDivMod(Numerator(div), Denominator(div)), Denominator(div)))

\* (x - mod) / w for the double diff = x - mod, floored.
QuotientOf(diff, w) == FloorOfDouble(DoubleOfRatio(Numerator(diff), MagMul(Denominator(diff), w)))

\* x // w and x % w for the double x = n / d >= 0 and an integer w > 0 that is
\* a double: mod = fmod(x, w), which is exact, and the quotient from x - mod.
DivModOfRatio(n, d, mod, w) ==
    [floordiv |-> QuotientOf(DoubleOfRatio(StripZeros(MagSub(n, mod)), d), w),
     mod |-> DoubleOfRatio(mod, d)]

float_divmod(x, w) ==
    DivModOfRatio(Numerator(x), Denominator(x),
                  MagDivMod(Numerator(x), MagMul(Denominator(x), w)).r, w)

-----------------------------------------------------------------------------
(* Texts and int(str) *)

Digit == {"0", "1", "2", "3", "4", "5", "6", "7", "8", "9"}
Whitespace == {" ", "\t", "\n", "\r", "\f"}

\* sys.get_int_max_str_digits(): int(str) refuses a text with more digits (CPython 3.11 default).
MaxStrDigits == 4300

DigitValue(c) ==
    CASE c = "0" -> 0 [] c = "1" -> 1 [] c = "2" -> 2 [] c = "3" -> 3 [] c = "4" -> 4
      [] c = "5" -> 5 [] c = "6" -> 6 [] c = "7" -> 7 [] c = "8" -> 8 [] c = "9" -> 9

RECURSIVE LStrip(_)
LStrip(t) == IF t /= <<>> /\ Head(t) \in Whitespace THEN LStrip(Tail(t)) ELSE t

RECURSIVE RStrip(_)
RStrip(t) ==
    IF t /= <<>> /\ t[Len(t)] \in Whitespace THEN RStrip(SubSeq(t, 1, Len(t) - 1)) ELSE t

\* str.strip()
strip(t) == RStrip(LStrip(t))

Contains(t, c) == \E i \in 1..Len(t) : t[i] = c

Returned(v) == [raised |-> "none", value |-> v]
Raised(e) == [raised |-> e, value |-> PyNone]

\* int(str): surrounding whitespace, an optional sign, then decimal digits
\* with single underscores allowed between digits; anything else, and a text
\* of more than MaxStrDigits digits, is ValueError.
int(t) ==
    LET s == strip(t)
        signed == s /= <<>> /\ Head(s) \in {"+", "-"}
        body == IF signed THEN Tail(s) ELSE s
        wellFormed ==
            /\ body /= <<>>
            /\ \A i \in 1..Len(body) : body[i] \in Digit \cup {"_"}
            /\ body[1] \in Digit /\ body[Len(body)] \in Digit
            /\ \A i \in 1..(Len(body) - 1) : ~(body[i] = "_" /\ body[i + 1] = "_")
        digits == SelectSeq(body, LAMBDA c : c \in Digit)
    IN  IF wellFormed /\ Len(digits) <= MaxStrDigits
        THEN Returned(PyInt(signed /\ Head(s) = "-", [i \in 1..Len(digits) |-> DigitValue(digits[i])]))
        ELSE Raised("ValueError")

DigitsOf(t) == [i \in 1..Len(t) |-> DigitValue(t[i])]

AllDigits(t) == \A i \in 1..Len(t) : t[i] \in Digit

\* Index of the first character of t at or after from that is in stops; Len(t) + 1 if there is none.
FirstIndex(t, stops, from) ==
    LET hits == {i \in from..Len(t) : t[i] \in stops}
    IN  IF hits = {} THEN Len(t) + 1 ELSE CHOOSE i \in hits : \A j \in hits : i <= j

\* The value of a run of decimal digits as a machine integer, saturating at Cap.
SmallValue(digits, Cap) ==
    LET d == StripZeros(digits)
        F[i \in 0..Len(d)] == IF i = 0 THEN 0 ELSE 10 * F[i - 1] + d[i]
    IN  IF Len(d) > Len(NatDigits(Cap)) THEN Cap
        ELSE IF F[Len(d)] > Cap THEN Cap ELSE F[Len(d)]

\* Decimal exponents at or beyond this magnitude all give inf or zero.
ExponentCap == 10000

\* t cut at its first character in stops: the text before it, whether there
\* is one, and the text after it.
Cut(t, stops) ==
    LET i == FirstIndex(t, stops, 1)
    IN  [before |-> SubSeq(t, 1, i - 1), found |-> i <= Len(t), after |-> SubSeq(t, i + 1, Len(t))]

\* An optional sign and what follows it.
Signed(s) ==
    LET signed == s /= <<>> /\ Head(s) \in {"+", "-"}
    IN  [neg |-> signed /\ Head(s) = "-", body |-> IF signed THEN Tail(s) ELSE s]

\* Underscores stand between two digits only.
UnderscoresOk(body) ==
    \A i \in 1..Len(body) : body[i] = "_" =>
        /\ i > 1 /\ i < Len(body)
        /\ body[i - 1] \in Digit /\ body[i + 1] \in Digit

\* The decimal exponent written after 'e', x its sign and digits; 0 when there is no 'e'.
ExponentOf(found, x) ==
    IF ~found THEN Returned(0)
    ELSE IF x.body = <<>> \/ ~AllDigits(x.body) THEN Raised("ValueError")
    ELSE Returned((IF x.neg THEN -1 ELSE 1) * SmallValue(DigitsOf(x.body), ExponentCap))

\* The float of a mantissa m (the digits before and after its '.') and an exponent e.
FloatOfParts(neg, m, e) ==
    IF /\ AllDigits(m.before) /\ AllDigits(m.after) /\ Len(m.before) + Len(m.after) >= 1
       /\ e.raised = "none"
    THEN Returned(DoubleOfDecimal(neg, StripZeros(DigitsOf(m.before \o m.after)),
                                  e.value - Len(m.after)))
    ELSE Raised("ValueError")

\* The float of a text without sign and underscores, c the text cut at its 'e'.
FloatOfBody(neg, c) ==
    FloatOfParts(neg, Cut(c.before, {"."}), ExponentOf(c.found, Signed(c.after)))

FloatOfSigned(x) ==
    IF UnderscoresOk(x.body)
    THEN FloatOfBody(x.neg, Cut(SelectSeq(x.body, LAMBDA c : c /= "_"), {"e", "E"}))
    ELSE Raised("ValueError")

\* float(str) of a text that holds a '.', the only texts parse_timestamp passes to it
\* (inf, infinity and nan have none): surrounding whitespace, an optional sign,
\* digits with a '.' and at least one digit around it, an optional exponent, single
\* underscores between digits; the value is correctly rounded. Anything else is ValueError.
float(t) == FloatOfSigned(Signed(strip(t)))

-----------------------------------------------------------------------------
(* JSON values, as json.loads builds them *)

JNull == [type |-> "null"]
JBool(b) == [type |-> "bool", b |-> b]
JInt(n) == [type |-> "int", n |-> n]
JFloat(f) == [type |-> "float", f |-> f]
JString(s) == [type |-> "string", s |-> s]
JArray(items) == [type |-> "array", items |-> items]
JObject(fields) == [type |-> "object", fields |-> fields]

isinstance_list(j) == j.type = "array"
isinstance_dict(j) == j.type = "object"

\* dict.get(key, default)
get(obj, key, default) ==
    IF key \in DOMAIN obj.fields THEN obj.fields[key] ELSE default

\* A line of the stream. A JSON line stands for the text of the JSON value doc.
\* A text line carries its characters; the text lines used are whitespace,
\* integer literals, and text that is not JSON (texts of strings, floats,
\* keywords, arrays and objects are JSON lines).
TextLine(t) == [kind |-> "text", doc |-> JNull, text |-> t]
JsonLine(doc) == [kind |-> "json", doc |-> doc, text |-> <<>>]
BlankLine == TextLine(<<>>)
InvalidJsonLine == TextLine(<<"{">>)

\* The whitespace json.loads accepts around a value.
JsonWhitespace == {" ", "\t", "\n", "\r"}

\* The text between the first and the last character that is not JSON whitespace.
JsonBody(t) ==
    LET inside == {i \in 1..Len(t) : t[i] \notin JsonWhitespace}
    IN  IF inside = {} THEN <<>>
        ELSE SubSeq(t, CHOOSE i \in inside : \A j \in inside : i <= j,
                       CHOOSE i \in inside : \A j \in inside : j <= i)

\* An integer literal of JSON: an optional minus, then digits without a leading zero.
IsIntegerLiteral(t) ==
    LET digits == IF t /= <<>> /\ Head(t) = "-" THEN Tail(t) ELSE t
    IN  digits /= <<>> /\ AllDigits(digits) /\ (Len(digits) = 1 \/ digits[1] /= "0")

\* The value of an integer literal: int() of its text.
LoadInteger(literal) ==
    IF int(literal).raised = "none" THEN Returned(JInt(int(literal).value))
    ELSE Raised("ValueError")

\* json.loads(line): the value of a JSON line; for a text line the int of an
\* integer literal, ValueError from int() when the literal has more than
\* MaxStrDigits digits, and JSONDecodeError for any other text.
json_loads(l) ==
    IF l.kind = "json" THEN Returned(l.doc)
    ELSE IF IsIntegerLiteral(JsonBody(l.text)) THEN LoadInteger(JsonBody(l.text))
    ELSE Raised("JSONDecodeError")

\* Variant: only the empty line is blank.
IsBlank_EmptyOnly(l) == l.kind = "text" /\ l.text = <<>>

\* not line.strip()
IsBlank(l) == l.kind = "text" /\ strip(l.text) = <<>>

-----------------------------------------------------------------------------
(* common/otlp_parser.py *)

LogRecord(time_unix_nano, ln, record_index, raw_data) ==
    [time_unix_nano |-> time_unix_nano, line_number |-> ln,
     record_index |-> record_index, raw_data |-> raw_data]

\* What a call of parse_otlp_line ends in: the returned list, or the exception raised.
ParseReturned(log_records) == [raised |-> "none", message |-> "", records |-> log_records]
ParseRaised(e, message) == [raised |-> e, message |-> message, records |-> <<>>]

\* Variant: a string that does not convert gives the timestamp 0.
_extract_time_unix_nano_Zero(log_record) ==
    LET time_value == get(log_record, "timeUnixNano", JNull)
    IN  IF time_value.type = "null" THEN PyNone
        ELSE IF time_value.type = "string"
             THEN LET r == int(time_value.s) IN IF r.raised = "none" THEN r.value ELSE IntOf(0)
        ELSE IF time_value.type = "int" THEN time_value.n
        ELSE IF time_value.type = "bool" THEN PyBool(time_value.b)
        ELSE PyNone

\* The timestamp of a log record: the int under timeUnixNano, int() of a
\* string, None without the key, for null, and when the conversion fails.
_extract_time_unix_nano(log_record) ==
    LET time_value == get(log_record, "timeUnixNano", JNull)
    IN  IF time_value.type = "null" THEN PyNone
        ELSE IF time_value.type = "string"
             THEN LET r == int(time_value.s)
                  IN  IF r.raised = "none" THEN r.value ELSE PyNone
        ELSE IF time_value.type = "int" THEN time_value.n
        ELSE IF time_value.type = "bool" THEN PyBool(time_value.b)
        ELSE PyNone

\* The loop state of parse_otlp_line: the list built so far and the next index.
NoRecords == [log_records |-> <<>>, record_index |-> 0]

\* Variant: the index advances for every element considered, appended or not.
VisitLogRecord_CountsSkipped(acc, log_record_data, ln) ==
    IF ~isinstance_dict(log_record_data)
    THEN [acc EXCEPT !.record_index = @ + 1]
    ELSE [log_records |->
              Append(acc.log_records,
                     LogRecord(_extract_time_unix_nano(log_record_data), ln,
                               acc.record_index, log_record_data)),
          record_index |-> acc.record_index + 1]

\* One logRecords element: skipped unless it is an object, else appended under the current index.
VisitLogRecord(acc, log_record_data, ln) ==
    IF ~isinstance_dict(log_record_data) THEN acc
    ELSE [log_records |->
              Append(acc.log_records,
                     LogRecord(_extract_time_unix_nano(log_record_data), ln,
                               acc.record_index, log_record_data)),
          record_index |-> acc.record_index + 1]

RECURSIVE ForLogRecords(_, _, _)
ForLogRecords(acc, log_records_list, ln) ==
    IF log_records_list = <<>> THEN acc
    ELSE ForLogRecords(VisitLogRecord(acc, Head(log_records_list), ln),
                       Tail(log_records_list), ln)

\* One scopeLogs element.
VisitScopeLog(acc, scope_log, ln) ==
    IF ~isinstance_dict(scope_log) THEN acc
    ELSE LET log_records_list == get(scope_log, "logRecords", JArray(<<>>))
         IN  IF ~isinstance_list(log_records_list) THEN acc
             ELSE ForLogRecords(acc, log_records_list.items, ln)

\* Variant: a scopeLogs element that is not an object ends the loop (break for continue).
RECURSIVE ForScopeLogs_Break(_, _, _)
ForScopeLogs_Break(acc, scope_logs, ln) ==
    IF scope_logs = <<>> \/ ~isinstance_dict(Head(scope_logs)) THEN acc
    ELSE ForScopeLogs_Break(VisitScopeLog(acc, Head(scope_logs), ln), Tail(scope_logs), ln)

RECURSIVE ForScopeLogs(_, _, _)
ForScopeLogs(acc, scope_logs, ln) ==
    IF scope_logs = <<>> THEN acc
    ELSE ForScopeLogs(VisitScopeLog(acc, Head(scope_logs), ln), Tail(scope_logs), ln)

\* One resourceLogs element.
VisitResourceLog(acc, resource_log, ln) ==
    IF ~isinstance_dict(resource_log) THEN acc
    ELSE LET scope_logs == get(resource_log, "scopeLogs", JArray(<<>>))
         IN  IF ~isinstance_list(scope_logs) THEN acc
             ELSE ForScopeLogs(acc, scope_logs.items, ln)

RECURSIVE ForResourceLogs(_, _, _)
ForResourceLogs(acc, resource_logs, ln) ==
    IF resource_logs = <<>> THEN acc
    ELSE ForResourceLogs(VisitResourceLog(acc, Head(resource_logs), ln),
                         Tail(resource_logs), ln)

\* data.get("resourceLogs", []) on the value json.loads returned: only a dict has .get
TopLevelGet(data) ==
    IF isinstance_dict(data)
    THEN Returned(get(data, "resourceLogs", JArray(<<>>)))
    ELSE Raised("AttributeError")

\* except json.JSONDecodeError: raise OTLPParseError("Invalid JSON: ...")
InvalidJson == ParseRaised("OTLPParseError", "Invalid JSON")

\* Variant: a resourceLogs of the wrong type is skipped like the inner levels.
ResourceLogsNotList_Skipped == ParseReturned(<<>>)

\* if not isinstance(resource_logs, list): raise OTLPParseError("resourceLogs must be a list")
ResourceLogsNotList == ParseRaised("OTLPParseError", "resourceLogs must be a list")

parse_otlp_line(l, ln) ==
    IF IsBlank(l) THEN ParseReturned(<<>>)
    ELSE LET data == json_loads(l)
         IN  IF data.raised = "JSONDecodeError" THEN InvalidJson
             ELSE IF data.raised /= "none" THEN ParseRaised(data.raised, "Exceeds the limit")
             ELSE LET resource_logs == TopLevelGet(data.value)
                  IN  IF resource_logs.raised /= "none"
                      THEN ParseRaised(resource_logs.raised, "object has no attribute 'get'")
                      ELSE IF ~isinstance_list(resource_logs.value) THEN ResourceLogsNotList
                      ELSE ParseReturned(
                               ForResourceLogs(NoRecords, resource_logs.value.items, ln).log_records)

-----------------------------------------------------------------------------
(* common/timestamp_parser.py *)

\* timestamp is an int or a float; 10_000_000_000 and 10_000_000_000_000 are the thresholds.
\* timestamp < 10^k
Below(timestamp, k) ==
    IF timestamp.py = "float" THEN FloatLessInt(timestamp, Pow10(k))
    ELSE Less(timestamp, Pow10(k))

\* The return statement of a unit whose nanoseconds are timestamp * 10^k:
\* "timestamp * 1_000_000_000" for an int and "round(timestamp * 1e9)" for a
\* float; "round(timestamp)" when k = 0.
ToNanoseconds(timestamp, k) ==
    IF timestamp.py = "float"
    THEN round(IF k = 0 THEN timestamp ELSE FloatTimesPow10(timestamp, k))
    ELSE Returned(MulPow10(timestamp, k))

_parse_unix_timestamp(timestamp) ==
    ToNanoseconds(timestamp, IF Below(timestamp, 10) THEN 9
                             ELSE IF Below(timestamp, 13) THEN 6
                             ELSE 0)

\* str.endswith(suffix)
EndsWith(t, suffix) ==
    Len(t) >= Len(suffix) /\ SubSeq(t, Len(t) - Len(suffix) + 1, Len(t)) = suffix

FirstNonDigit(t, from) ==
    LET hits == {i \in from..Len(t) : t[i] \notin Digit}
    IN  IF hits = {} THEN Len(t) + 1 ELSE CHOOSE i \in hits : \A j \in hits : i <= j

\* The fields strptime's directives match: %m, %d, %H, %M and %S as _strptime's
\* regular expressions define them (one or two characters each).
Pair(f, firsts, seconds) == Len(f) = 2 /\ f[1] \in firsts /\ f[2] \in seconds
Single(f, chars) == Len(f) = 1 /\ f[1] \in chars

MonthField(f) ==
    Pair(f, {"1"}, {"0", "1", "2"}) \/ Pair(f, {"0"}, Digit \ {"0"}) \/ Single(f, Digit \ {"0"})
DayField(f) ==
    \/ Pair(f, {"3"}, {"0", "1"}) \/ Pair(f, {"1", "2"}, Digit)
    \/ Pair(f, {"0", " "}, Digit \ {"0"}) \/ Single(f, Digit \ {"0"})
HourField(f) ==
    Pair(f, {"2"}, {"0", "1", "2", "3"}) \/ Pair(f, {"0", "1"}, Digit) \/ Single(f, Digit)
MinuteField(f) == Pair(f, {"0", "1", "2", "3", "4", "5"}, Digit) \/ Single(f, Digit)
SecondField(f) ==
    \/ Pair(f, {"6"}, {"0", "1"}) \/ Pair(f, {"0", "1", "2", "3", "4", "5"}, Digit)
    \/ Single(f, Digit)
FractionField(f) == Len(f) \in 1..6 /\ AllDigits(f)

\* The value of a field of at most six digits (a leading space of %d counts as nothing).
FieldValue(f) == SmallValue(DigitsOf(SelectSeq(f, LAMBDA c : c \in Digit)), 999999)

\* %f: the digits padded on the right to six, as microseconds.
Microseconds(f) == FieldValue(f \o [i \in 1..(6 - Len(f)) |-> "0"])

\* %z: +hh[:]mm[[:]ss[.ffffff]] or an upper-case Z. The result is the offset from
\* UTC, or ValueError when the text does not match, when only one of the two
\* colons is written, or when the offset is not within a day.
UtcOffset(seconds, microseconds) == [seconds |-> seconds, microseconds |-> microseconds]

ZoneField(z) ==
    IF z = <<"Z">> THEN Returned(UtcOffset(0, 0))
    ELSE IF ~(Len(z) >= 5 /\ z[1] \in {"+", "-"}) THEN Raised("ValueError")
    ELSE LET colon1 == z[4] = ":"
             a == IF colon1 THEN 5 ELSE 4
             hh == SubSeq(z, 2, 3)
             mm == SubSeq(z, a, a + 1)
             rest == SubSeq(z, a + 2, Len(z))
             colon2 == rest /= <<>> /\ rest[1] = ":"
             b == IF colon2 THEN 2 ELSE 1
             ss == SubSeq(rest, b, b + 1)
             tail == SubSeq(rest, b + 2, Len(rest))
             matches ==
                 /\ Len(z) >= a + 1
                 /\ AllDigits(hh) /\ MinuteField(mm) /\ Len(mm) = 2
                 /\ rest /= <<>> =>
                        /\ Len(rest) >= b + 1 /\ MinuteField(ss) /\ Len(ss) = 2
                        /\ tail /= <<>> => (tail[1] = "." /\ FractionField(Tail(tail)))
             total == FieldValue(hh) * 3600 + FieldValue(mm) * 60
                          + (IF rest = <<>> THEN 0 ELSE FieldValue(ss))
             micro == IF rest = <<>> \/ tail = <<>> THEN 0 ELSE Microseconds(Tail(tail))
             sign == IF z[1] = "-" THEN -1 ELSE 1
         IN  IF ~matches THEN Raised("ValueError")
             ELSE IF rest /= <<>> /\ colon1 /= colon2 THEN Raised("ValueError")
             ELSE IF total >= 86400 THEN Raised("ValueError")
             ELSE Returned(UtcOffset(sign * total, sign * micro))

IsLeap(year) == year % 4 = 0 /\ (year % 100 /= 0 \/ year % 400 = 0)

DaysInMonth(year, month) ==
    IF month = 2 THEN (IF IsLeap(year) THEN 29 ELSE 28)
    ELSE IF month \in {4, 6, 9, 11} THEN 30 ELSE 31

DaysBeforeYear(year) ==
    LET y == year - 1 IN y * 365 + y \div 4 - y \div 100 + y \div 400

RECURSIVE DaysBeforeMonth(_, _)
DaysBeforeMonth(year, month) ==
    IF month = 1 THEN 0
    ELSE DaysBeforeMonth(year, month - 1) + DaysInMonth(year, month - 1)

\* datetime.toordinal(): 1 for 0001-01-01
Ordinal(year, month, day) == DaysBeforeYear(year) + DaysBeforeMonth(year, month) + day

\* 1970-01-01
EpochOrdinal == Ordinal(1970, 1, 1)

DateTime(year, month, day, hour, minute, second, microsecond, utcoffset) ==
    [py |-> "datetime", year |-> year, month |-> month, day |-> day, hour |-> hour,
     minute |-> minute, second |-> second, microsecond |-> microsecond,
     utcoffset |-> utcoffset]


\* (self - _EPOCH).total_seconds(): the microseconds since the epoch, divided by 10**6.
timestamp(dt) ==
    LET days == Ordinal(dt.year, dt.month, dt.day) - EpochOrdinal
        seconds == dt.hour * 3600 + dt.minute * 60 + dt.second - dt.utcoffset.seconds
        total == Plus(TimesSmall(IntOf(days), 86400), IntOf(seconds))
        micro == Plus(MulPow10(total, 6), IntOf(dt.microsecond - dt.utcoffset.microseconds))
    IN  TrueDivide(micro, Pow10(6))

\* The leading digits of t and what follows them.
CutDigits(t) ==
    LET i == FirstNonDigit(t, 1)
    IN  [before |-> SubSeq(t, 1, i - 1), after |-> SubSeq(t, i, Len(t))]

\* t cut at the first occurrence of each separator in turn: the fields between
\* them and the rest of t last; fewer fields when a separator is missing.
RECURSIVE Fields(_, _)
Fields(t, separators) ==
    IF separators = <<>> THEN <<t>>
    ELSE LET c == Cut(t, Head(separators))
         IN  IF c.found THEN <<c.before>> \o Fields(c.after, Tail(separators)) ELSE <<>>

\* ".%f" at the head of the text after the seconds, if the format has it.
FractionOf(after, withFraction) ==
    IF ~withFraction THEN [matches |-> TRUE, fraction |-> <<>>, rest |-> after]
    ELSE IF after = <<>> \/ Head(after) /= "." THEN [matches |-> FALSE, fraction |-> <<>>, rest |-> <<>>]
    ELSE LET c == CutDigits(Tail(after))
         IN  [matches |-> FractionField(c.before), fraction |-> c.before, rest |-> c.after]

\* "%z", or the literal "Z" of a format without it (the datetime is then naive
\* and _parse_iso8601 gives it UTC).
ZoneOf(rest, withZone) ==
    IF withZone THEN ZoneField(rest)
    ELSE IF rest \in {<<"Z">>, <<"z">>} THEN Returned(UtcOffset(0, 0))
    ELSE Raised("ValueError")

\* The datetime of the fields year, month, day, hour, minute (f[1] .. f[5]),
\* second, fraction and zone; ValueError when a field does not match its
\* directive or datetime() rejects the values.
DateTimeOf(f, second, fr, zone) ==
    IF /\ fr.matches /\ zone.raised = "none"
       /\ Len(f[1]) = 4 /\ AllDigits(f[1])
       /\ MonthField(f[2]) /\ DayField(f[3]) /\ HourField(f[4])
       /\ MinuteField(f[5]) /\ SecondField(second)
       /\ FieldValue(f[1]) >= 1
       /\ FieldValue(f[3]) <= DaysInMonth(FieldValue(f[1]), FieldValue(f[2]))
       /\ FieldValue(second) <= 59
    THEN Returned(DateTime(FieldValue(f[1]), FieldValue(f[2]), FieldValue(f[3]),
                           FieldValue(f[4]), FieldValue(f[5]), FieldValue(second),
                           Microseconds(fr.fraction), zone.value))
    ELSE Raised("ValueError")

FromFraction(f, second, fr, withZone) == DateTimeOf(f, second, fr, ZoneOf(fr.rest, withZone))

FromSeconds(f, sec, withFraction, withZone) ==
    FromFraction(f, sec.before, FractionOf(sec.after, withFraction), withZone)

FromFields(f, withFraction, withZone) ==
    IF Len(f) /= 6 THEN Raised("ValueError")
    ELSE FromSeconds(f, CutDigits(f[6]), withFraction, withZone)

\* datetime.strptime(text, fmt) for the four formats of _parse_iso8601:
\* "%Y-%m-%dT%H:%M:%S" followed by ".%f" if withFraction, then by "%z" if withZone
\* and by a literal "Z" if not. Literals match in either case.
strptime(text, withFraction, withZone) ==
    FromFields(Fields(text, <<{"-"}, {"-"}, {"T", "t"}, {":"}, {":"}>>), withFraction, withZone)

\* re.match(r"^\d{4}-\d{2}-\d{2}$", text)
IsDateOnly(text) ==
    /\ Len(text) = 10
    /\ \A i \in 1..10 : IF i \in {5, 8} THEN text[i] = "-" ELSE text[i] \in Digit

\* re.search(r"[+-]\d{2}:\d{2}$", text)
EndsWithOffset(text) ==
    LET n == Len(text)
    IN  /\ n >= 6
        /\ text[n - 5] \in {"+", "-"} /\ text[n - 4] \in Digit /\ text[n - 3] \in Digit
        /\ text[n - 2] = ":" /\ text[n - 1] \in Digit /\ text[n] \in Digit

\* The formats of _parse_iso8601, in the order it tries them.
IsoFormats ==
    << [fraction |-> TRUE, zone |-> FALSE], [fraction |-> TRUE, zone |-> TRUE],
       [fraction |-> FALSE, zone |-> FALSE], [fraction |-> FALSE, zone |-> TRUE] >>

RECURSIVE TryFormats(_, _)

\* The body of "for fmt in formats" for format k, given what strptime made of
\* the text: "return round(dt.timestamp() * 1e9)", or "continue" on ValueError.
TryFormat(dt, text, k) ==
    IF dt.raised = "none" THEN round(FloatTimesPow10(timestamp(dt.value), 9))
    ELSE TryFormats(text, k + 1)

\* The loop over the formats from format k on; ValueError when none is left.
TryFormats(text, k) ==
    IF k > Len(IsoFormats) THEN Raised("ValueError")
    ELSE TryFormat(strptime(text, IsoFormats[k].fraction, IsoFormats[k].zone), text, k)

_parse_iso8601(timestamp_str) ==
    LET dated == IF IsDateOnly(timestamp_str)
                 THEN timestamp_str \o <<"T", "0", "0", ":", "0", "0", ":", "0", "0", "Z">>
                 ELSE timestamp_str
        zoned == IF /\ Contains(dated, "T")
                    /\ ~EndsWith(dated, <<"Z">>)
                    /\ ~EndsWith(dated, <<"+", "0", "0", ":", "0", "0">>)
                    /\ ~EndsWith(dated, <<"-", "0", "0", ":", "0", "0">>)
                    /\ ~EndsWithOffset(dated)
                 THEN Append(dated, "Z")
                 ELSE dated
    IN  TryFormats(zoned, 1)

\* "return _parse_unix_timestamp(timestamp)" with the number that int() or float() made of the text
UnixOf(num) == IF num.raised = "none" THEN _parse_unix_timestamp(num.value) ELSE num

\* except ValueError as e: raise TimestampParseError(...) from e
IsoOf(iso) == IF iso.raised = "ValueError" THEN Raised("TimestampParseError") ELSE iso

\* The two try blocks on the stripped text: the second runs when the first
\* ended with ValueError; any other exception of the first leaves the function.
ParseStripped(unix, s) ==
    IF unix.raised /= "ValueError" THEN unix ELSE IsoOf(_parse_iso8601(s))

parse_timestamp(timestamp_str) ==
    ParseStripped(UnixOf(IF ~Contains(strip(timestamp_str), ".")
                         THEN int(strip(timestamp_str))
                         ELSE float(strip(timestamp_str))),
                  strip(timestamp_str))

-----------------------------------------------------------------------------
(* tools/check_timestamp.py *)

\* parse_otlp_line not called yet.
NotCalled == [raised |-> "pending", message |-> "", records |-> <<>>]

\* Summary()
NoSummary == [total_lines |-> 0, total_records |-> 0, in_range |-> 0,
              too_early |-> 0, too_late |-> 0, errors |-> 0]

CheckResult(record, status, error_message) ==
    [record |-> record, status |-> status, error_message |-> error_message]

\* Variant: <= for <, the start boundary excluded from the range.
IsTooEarly_Inclusive(record, s_ns) == ~Less(s_ns, record.time_unix_nano)

\* record.time_unix_nano < start_ns
IsTooEarly(record, s_ns) == Less(record.time_unix_nano, s_ns)

\* record.time_unix_nano > end_ns
IsTooLate(record, e_ns) == Less(e_ns, record.time_unix_nano)

check_timestamp_range(record, s_ns, e_ns) ==
    IF record.time_unix_nano.py = "None"
    THEN CheckResult(record, "error", "Missing or invalid timeUnixNano field")
    ELSE IF IsTooEarly(record, s_ns) THEN CheckResult(record, "too_early", "")
    ELSE IF IsTooLate(record, e_ns) THEN CheckResult(record, "too_late", "")
    ELSE CheckResult(record, "in_range", "")

\* The header line and, for an out-of-range record, the values of the three detail lines.
format_result(result, s_ns, e_ns) ==
    LET record == result.record
        head == [line_number |-> record.line_number, record_index |-> record.record_index]
    IN  CASE result.status = "in_range" ->
                 [kind |-> "record", at |-> head, header |-> "IN RANGE", detail |-> <<>>]
          [] result.status = "too_early" ->
                 [kind |-> "record", at |-> head, header |-> "OUT OF RANGE (too early)",
                  detail |-> << record.time_unix_nano, s_ns, e_ns,
                                Minus(s_ns, record.time_unix_nano), "before start" >>]
          [] result.status = "too_late" ->
                 [kind |-> "record", at |-> head, header |-> "OUT OF RANGE (too late)",
                  detail |-> << record.time_unix_nano, s_ns, e_ns,
                                Minus(record.time_unix_nano, e_ns), "after end" >>]
          [] result.status = "error" ->
                 [kind |-> "record", at |-> head, header |-> "ERROR", detail |-> <<result.error_message>>]

format_summary(sm) == [kind |-> "summary", fields |-> sm]

\* The one-line summary main prints under --quiet.
QuietSummary(sm) ==
    [kind |-> "counts", in_range |-> sm.in_range,
     out_of_range |-> sm.too_early + sm.too_late, errors |-> sm.errors]

BlankOutputLine == [kind |-> "blank"]

\* Variant: lines are counted from 0.
LineError_ZeroBased(ln, e) == [kind |-> "line_error", line_number |-> ln - 1, message |-> e.message]

\* What the except branch of process_stream echoes for a line that failed.
LineError(ln, e) == [kind |-> "line_error", line_number |-> ln, message |-> e.message]

\* Variant: the error branch is missing, a record without timestamp is counted in no category.
Tally_DropsError(sm, status) ==
    LET counted == [sm EXCEPT !.total_records = @ + 1]
    IN  CASE status = "in_range" -> [counted EXCEPT !.in_range = @ + 1]
          [] status = "too_early" -> [counted EXCEPT !.too_early = @ + 1]
          [] status = "too_late" -> [counted EXCEPT !.too_late = @ + 1]
          [] status = "error" -> counted

\* summary after one more record with the given status ("Update summary").
Tally(sm, status) ==
    LET counted == [sm EXCEPT !.total_records = @ + 1]
    IN  CASE status = "in_range" -> [counted EXCEPT !.in_range = @ + 1]
          [] status = "too_early" -> [counted EXCEPT !.too_early = @ + 1]
          [] status = "too_late" -> [counted EXCEPT !.too_late = @ + 1]
          [] status = "error" -> [counted EXCEPT !.errors = @ + 1]

\* Variant: a record without timestamp does not set has_issues.
RaisesIssue_NoError(status) == status \in {"too_early", "too_late"}

\* Whether a record with this status sets has_issues.
RaisesIssue(status) == status \in {"too_early", "too_late", "error"}

\* Variant: --quiet does not silence the records.
Echoed_IgnoresQuiet(status, v, q) == v \/ status /= "in_range"

\* Whether the rendering of a classified record is echoed.
Echoed(status, v, q) == ~q /\ (v \/ status /= "in_range")

\* Variant: once has_issues is set, the outcome of a record is no longer counted.
CheckRecord_StopsCounting(st, record, s_ns, e_ns, v, q) ==
    LET result == check_timestamp_range(record, s_ns, e_ns)
    IN  [summary |-> IF st.has_issues THEN st.summary ELSE Tally(st.summary, result.status),
         has_issues |-> st.has_issues \/ RaisesIssue(result.status),
         output |-> IF Echoed(result.status, v, q)
                    THEN st.output \o <<format_result(result, s_ns, e_ns), BlankOutputLine>>
                    ELSE st.output,
         results |-> Append(st.results, result)]

\* The body of "for record in records": st holds summary, has_issues, the
\* output so far and the results of the records checked so far.
CheckRecord(st, record, s_ns, e_ns, v, q) ==
    LET result == check_timestamp_range(record, s_ns, e_ns)
    IN  [summary |-> Tally(st.summary, result.status),
         has_issues |-> st.has_issues \/ RaisesIssue(result.status),
         output |-> IF Echoed(result.status, v, q)
                    THEN st.output \o <<format_result(result, s_ns, e_ns), BlankOutputLine>>
                    ELSE st.output,
         results |-> Append(st.results, result)]

RECURSIVE ForRecords(_, _, _, _, _, _)
ForRecords(st, records, s_ns, e_ns, v, q) ==
    IF records = <<>> THEN st
    ELSE ForRecords(CheckRecord(st, Head(records), s_ns, e_ns, v, q), Tail(records),
                    s_ns, e_ns, v, q)

\* Variant: a failed line is counted but does not set has_issues.
LineFailed_NoIssue(st, ln, e, q) ==
    [summary |-> [st.summary EXCEPT !.errors = @ + 1],
     has_issues |-> st.has_issues,
     output |-> IF ~q THEN Append(st.output, LineError(ln, e)) ELSE st.output,
     results |-> <<>>]

\* The except branch of process_stream: count the line as an error and go on.
LineFailed(st, ln, e, q) ==
    [summary |-> [st.summary EXCEPT !.errors = @ + 1],
     has_issues |-> TRUE,
     output |-> IF ~q THEN Append(st.output, LineError(ln, e)) ELSE st.output,
     results |-> <<>>]

\* Variant: > for >=, an empty range start = end is let through.
RangeInvalid_Strict(s_ns, e_ns) == Less(e_ns, s_ns)

\* if start_ns >= end_ns: exit 2
RangeInvalid(s_ns, e_ns) == ~Less(s_ns, e_ns)

-----------------------------------------------------------------------------
(* Input lines for the extractor *)

DigitChar(d) ==
    CASE d = 0 -> "0" [] d = 1 -> "1" [] d = 2 -> "2" [] d = 3 -> "3" [] d = 4 -> "4"
      [] d = 5 -> "5" [] d = 6 -> "6" [] d = 7 -> "7" [] d = 8 -> "8" [] d = 9 -> "9"

\* The decimal text of a Python int.
str(x) ==
    LET digits == IF x.mag = <<>> THEN <<"0">> ELSE [i \in 1..Len(x.mag) |-> DigitChar(x.mag[i])]
    IN  IF x.neg THEN <<"-">> \o digits ELSE digits

\* n seconds after the epoch, in nanoseconds
Seconds(n) == MulPow10(IntOf(n), 9)

\* Two distinguishable log records (one with, one without timeUnixNano) and a non-object element.
RecA == JObject([timeUnixNano |-> JString(str(Seconds(6)))])
RecB == JObject([body |-> JString(<<"x">>)])
LogRecordElements == {RecA, RecB, JString(<<"x">>)}

\* All sequences of elements whose weights add up to w; items[i] is the set of elements of weight i.
RECURSIVE SeqsOfWeight(_, _)
SeqsOfWeight(items, w) ==
    IF w = 0 THEN {<<>>}
    ELSE UNION { { <<x>> \o rest : x \in items[i], rest \in SeqsOfWeight(items, w - i) }
                 : i \in 1..w }

\* scopeLogs elements with w leaves: a dead end counts as one leaf.
ScopeLogElements(w) ==
    (IF w = 1
     THEN { JString(<<"x">>),
            JObject([scope |-> JNull]),
            JObject([logRecords |-> JObject(<<>>)]) }
     ELSE {})
    \cup { JObject([logRecords |-> JArray(a)]) : a \in [1..w -> LogRecordElements] }

ScopeLogsArrays(w) == SeqsOfWeight([i \in 1..w |-> ScopeLogElements(i)], w)

\* resourceLogs elements with w leaves.
ResourceLogElements(w) ==
    (IF w = 1
     THEN { JInt(IntOf(7)),
            JObject([resource |-> JNull]),
            JObject([scopeLogs |-> JNull]) }
     ELSE {})
    \cup { JObject([scopeLogs |-> JArray(a)]) : a \in ScopeLogsArrays(w) }

ResourceLogsArrays(w) == SeqsOfWeight([i \in 1..w |-> ResourceLogElements(i)], w)

\* Valid JSON whose top level is not an object.
TopLevelNonObjects ==
    { JArray(<<>>), JArray(<<RecA>>), JString(<<"x">>), JInt(IntOf(1)),
      JFloat("1.5"), JBool(TRUE), JNull }

\* Objects without a resourceLogs key.
ObjectsWithoutResourceLogs ==
    { JObject(<<>>), JObject([other |-> JString(<<"x">>)]),
      JObject([scopeLogs |-> JArray(<<JObject([logRecords |-> JArray(<<RecA>>)])>>)]) }

\* Objects whose resourceLogs is not an array.
ObjectsWithNonArrayResourceLogs ==
    { JObject([resourceLogs |-> v]) :
        v \in { JString(<<"x">>), JInt(IntOf(1)), JFloat("1.5"), JBool(FALSE), JNull,
                JObject([scopeLogs |-> JArray(<<>>)]) } }

Rec(t) == JObject([timeUnixNano |-> JString(str(Seconds(t)))])

\* A line with one resourceLogs entry and one scopeLogs entry holding the given logRecords.
Doc(log_records) ==
    JsonLine(JObject([resourceLogs |->
        JArray(<<JObject([scopeLogs |->
            JArray(<<JObject([logRecords |-> JArray(log_records)])>>)])>>)]))

Ones(n) == [i \in 1..n |-> "1"]

\* Text lines: blank and whitespace-only lines, text that is not JSON, and
\* integer literals up to and beyond the digit limit of int().
TextLines ==
    { TextLine(t) : t \in
        { <<>>, <<" ">>, <<" ", "\t", "\n">>, <<"\r">>, <<"\f">>, <<"\n">>, <<" ", "\f", " ", "\r", "\n">>,
          <<"{">>, <<"a", "b", "c">>, <<"\f", "7">>, <<"0", "1">>, <<"-">>,
          <<"7">>, <<" ", "7", " ">>, <<"-", "7">>, <<"7", "\n">>,
          Ones(MaxStrDigits), Ones(MaxStrDigits + 1) } }

\* Values found under timeUnixNano: every JSON type, integers of small and
\* large magnitude and of both signs, and strings that int() accepts or refuses.
TimeValues ==
    { JNull, JBool(TRUE), JBool(FALSE), JFloat("1.5"), JFloat("1e400"),
      JArray(<<>>), JArray(<<JInt(IntOf(7))>>), JObject(<<>>), JObject([seconds |-> JInt(IntOf(7))]),
      JInt(IntOf(0)), JInt(IntOf(7)), JInt(Seconds(6)), JInt(IntOf(-5)),
      JInt(MulPow10(IntOf(1), 30)), JInt(int(Ones(MaxStrDigits)).value),
      JString(<<"7">>), JString(str(Seconds(6))), JString(<<" ", "5", " ">>), JString(<<"1", "_", "0">>),
      JString(<<"+", "5">>), JString(<<"-", "5">>), JString(<<"0", "0", "7">>),
      JString(<<"1">> \o [i \in 1..30 |-> "0"]),
      JString(<<"5", ".", "0">>), JString(<<>>), JString(<<"a", "b", "c">>), JString(<<"1", "e", "3">>),
      JString(Ones(MaxStrDigits)), JString(Ones(MaxStrDigits + 1)) }

\* Log records that differ in what they hold under timeUnixNano, or hold nothing there.
TimeRecords == { JObject([timeUnixNano |-> v]) : v \in TimeValues } \cup {RecB}

ParseLines ==
    TextLines
    \cup { Doc(<<r>>) : r \in TimeRecords }
    \cup { Doc(<<RecA, r>>) : r \in TimeRecords }
    \cup { JsonLine(d) : d \in TopLevelNonObjects \cup ObjectsWithoutResourceLogs
                                \cup ObjectsWithNonArrayResourceLogs }
    \cup { JsonLine(JObject([resourceLogs |-> JArray(a)])) :
             a \in UNION { ResourceLogsArrays(w) : w \in 0..MaxLeaves } }

-----------------------------------------------------------------------------
(* The extractor alone: parse_otlp_line applied to one line *)

InitParse ==
    /\ line \in ParseLines
    /\ line_number = 1
    /\ parsed = NotCalled
    /\ pc = "call"
    /\ start = <<>> /\ end = <<>> /\ verbose = FALSE /\ quiet = FALSE
    /\ start_ns = PyNone /\ end_ns = PyNone /\ raised = "none"
    /\ summary = NoSummary /\ has_issues = FALSE
    /\ results = <<>> /\ failed_lines = 0 /\ output = <<>> /\ exit_code = -1

CallParse ==
    /\ pc = "call"
    /\ parsed' = parse_otlp_line(line, line_number)
    /\ pc' = "returned"
    /\ UNCHANGED <<start, end, verbose, quiet, start_ns, end_ns, raised, summary, has_issues,
                   line_number, line, results, failed_lines, output, exit_code>>

NextParse == CallParse

SpecParse == InitParse /\ [][NextParse]_vars

-----------------------------------------------------------------------------
(* The normalizer alone: parse_timestamp applied to a text and to the same  *)
(* text with a timezone marker appended                                      *)

\* Integers of both signs, around the thresholds 10^10 and 10^13, and as int() accepts them.
IntegerTexts ==
    { <<"0">>,
      <<"7">>,
      <<"-", "5">>,
      <<"+", "5">>,
      <<" ", "5", " ">>,
      <<"1", "_", "0">>,
      <<"0", "0", "7">>,
      <<"1", "5", "7", "7", "8", "3", "6", "8", "0", "0">>,
      <<"9", "9", "9", "9", "9", "9", "9", "9", "9", "9">>,
      <<"1", "0", "0", "0", "0", "0", "0", "0", "0", "0", "0">>,
      <<"-", "1", "0", "0", "0", "0", "0", "0", "0", "0", "0", "0">>,
      <<"1", "5", "7", "7", "8", "3", "6", "8", "0", "0", "0", "0", "0">>,
      <<"9", "9", "9", "9", "9", "9", "9", "9", "9", "9", "9", "9", "9">>,
      <<"1", "0", "0", "0", "0", "0", "0", "0", "0", "0", "0", "0", "0", "0">>,
      <<"1", "5", "7", "7", "8", "3", "6", "8", "0", "0", "0", "0", "0", "0", "0", "0", "0", "0", "0">>,
      <<"1", "2", "3", "4", "5", "6", "7", "8", "9", "0", "1", "2", "3", "4", "5", "6", "7", "8", "9", "0", "1", "2", "3">>,
      Ones(MaxStrDigits),
      Ones(MaxStrDigits + 1),
      <<"-", "1">>,
      <<"-", "9", "9", "9", "9", "9", "9", "9", "9", "9", "9", "9", "9", "9">>,
      <<"-", "1", "0", "0", "0", "0", "0", "0", "0", "0", "0", "0", "0", "0", "0">>,
      <<"-", "1", "5", "7", "7", "8", "3", "6", "8", "0", "0", "0", "0", "0", "0", "0", "0", "0", "0", "0">>,
      <<"-">> \o Ones(MaxStrDigits),
      <<"-">> \o Ones(MaxStrDigits + 1) }

\* Texts with a decimal point: floats, a float too large for a double, and texts float() refuses.
FloatTexts ==
    { <<"6", ".", "5">>,
      <<"-", "1", ".", "5">>,
      <<".", "5">>,
      <<"5", ".">>,
      <<"1", "5", "7", "7", "8", "3", "6", "8", "0", "0", ".", "5">>,
      <<"9", "9", "9", "9", "9", "9", "9", "9", "9", "9", ".", "9">>,
      <<"1", "0", "0", "0", "0", "0", "0", "0", "0", "0", "0", ".", "0">>,
      <<"1", ".", "5", "e", "3">>,
      <<"1", ".", "0", "e", "4", "0", "0">>,
      <<"1", ".", "e", "4", "0", "0">>,
      <<"1", ".", "5", ".", "5">>,
      <<"1", ".", "5", "e">> }

\* Bare dates, valid and not.
DateTexts ==
    { <<"2", "0", "2", "0", "-", "0", "1", "-", "0", "1">>,
      <<"1", "9", "7", "0", "-", "0", "1", "-", "0", "1">>,
      <<"1", "9", "6", "9", "-", "1", "2", "-", "3", "1">>,
      <<"2", "0", "0", "0", "-", "0", "2", "-", "2", "9">>,
      <<"2", "0", "2", "0", "-", "0", "2", "-", "3", "0">>,
      <<"2", "0", "2", "0", "-", "1", "3", "-", "0", "1">>,
      <<"0", "0", "0", "0", "-", "0", "1", "-", "0", "1">>,
      <<"2", "0", "2", "0", "-", "1", "-", "1">>,
      <<"2", "0", "2", "0", "0", "1", "0", "1">> }

\* Date-times without a timezone marker.
NaiveTexts ==
    { <<"2", "0", "2", "0", "-", "0", "1", "-", "0", "1", "T", "0", "0", ":", "0", "0", ":", "0", "0">>,
      <<"2", "0", "2", "0", "-", "0", "6", "-", "1", "5", "T", "1", "2", ":", "3", "0", ":", "4", "5", ".", "1", "2", "3">>,
      <<"1", "9", "7", "0", "-", "0", "1", "-", "0", "1", "T", "0", "0", ":", "0", "0", ":", "0", "7">>,
      <<"2", "0", "2", "0", "-", "0", "1", "-", "0", "1", "T", "2", "5", ":", "0", "0", ":", "0", "0">>,
      <<"2", "0", "2", "0", "-", "0", "1", "-", "0", "1", "T", "0", "0", ":", "0", "0">>,
      <<"2", "0", "2", "0", "-", "0", "1", "-", "0", "1", " ", "0", "0", ":", "0", "0", ":", "0", "0">>,
      <<"2", "0", "2", "0", "-", "0", "1", "-", "0", "1", "t", "0", "0", ":", "0", "0", ":", "0", "0">>,
      <<"2", "0", "2", "0", "-", "0", "1", "-", "0", "1", "t", "0", "0", ":", "0", "0", ":", "0", "0", ".", "5">> }

\* Date-times that end in Z or in an offset.
ZonedTexts ==
    { <<"2", "0", "2", "0", "-", "0", "1", "-", "0", "1", "T", "0", "0", ":", "0", "0", ":", "0", "0", "Z">>,
      <<"2", "0", "2", "0", "-", "0", "6", "-", "1", "5", "T", "1", "2", ":", "3", "0", ":", "4", "5", ".", "1", "2", "3", "Z">>,
      <<"1", "9", "7", "0", "-", "0", "1", "-", "0", "1", "T", "0", "0", ":", "0", "0", ":", "0", "7", "Z">>,
      <<"2", "0", "2", "0", "-", "0", "1", "-", "0", "1", "T", "0", "0", ":", "0", "0", ":", "0", "0", "z">>,
      <<"2", "0", "2", "0", "-", "0", "1", "-", "0", "1", "T", "0", "0", ":", "0", "0", ":", "0", "0", "+", "0", "0", ":", "0", "0">>,
      <<"2", "0", "2", "0", "-", "0", "1", "-", "0", "1", "T", "0", "0", ":", "0", "0", ":", "0", "0", "-", "0", "0", ":", "0", "0">>,
      <<"2", "0", "2", "0", "-", "0", "1", "-", "0", "1", "T", "0", "0", ":", "0", "0", ":", "0", "0", "+", "0", "1", ":", "0", "0">>,
      <<"2", "0", "2", "0", "-", "0", "1", "-", "0", "1", "T", "0", "0", ":", "0", "0", ":", "0", "0", "-", "0", "5", ":", "3", "0">>,
      <<"2", "0", "2", "0", "-", "0", "1", "-", "0", "1", "T", "0", "0", ":", "0", "0", ":", "0", "0", ".", "5", "+", "0", "1", ":", "0", "0">>,
      <<"2", "0", "2", "0", "-", "0", "1", "-", "0", "1", "T", "0", "0", ":", "0", "0", ":", "0", "0", "+", "0", "1", "0", "0">>,
      <<"2", "0", "2", "0", "-", "0", "1", "-", "0", "1", "T", "0", "0", ":", "0", "0", ":", "0", "0", "+", "0", "1", ":", "0", "0", ":", "3", "0">>,
      <<"2", "0", "2", "0", "-", "0", "1", "-", "0", "1", "t", "0", "0", ":", "0", "0", ":", "0", "0", "+", "0", "1", ":", "0", "0">> }

\* Texts that are neither numbers nor dates.
OtherTexts ==
    { <<>>,
      <<" ">>,
      <<" ", "\t", "\n">>,
      <<"n", "o", "t", "-", "a", "-", "t", "i", "m", "e", "s", "t", "a", "m", "p">>,
      <<"a", "b", "c">>,
      <<"1", "e", "3">>,
      <<"n", "a", "n">>,
      <<"i", "n", "f">>,
      <<"T">>,
      <<"Z">>,
      <<"-">> }

TimestampTexts ==
    IntegerTexts \cup FloatTexts \cup DateTexts \cup NaiveTexts \cup ZonedTexts \cup OtherTexts

Midnight == <<"T", "0", "0", ":", "0", "0", ":", "0", "0", "Z">>

\* A text as it is, as a date-time in UTC, and as a date at midnight UTC.
Completions(t) == {t, t \o <<"Z">>, t \o Midnight}

\* parse_timestamp of each text and of its completions
ParsedTexts == [t \in UNION { Completions(t) : t \in TimestampTexts } |-> parse_timestamp(t)]

InitTimestamp ==
    /\ start \in TimestampTexts
    /\ end \in Completions(start)
    /\ pc = "call"
    /\ start_ns = PyNone /\ end_ns = PyNone /\ raised = "none"
    /\ verbose = FALSE /\ quiet = FALSE
    /\ summary = NoSummary /\ has_issues = FALSE
    /\ line_number = 0 /\ line = BlankLine /\ parsed = NotCalled
    /\ results = <<>> /\ failed_lines = 0 /\ output = <<>> /\ exit_code = -1

\* The two calls, given what parse_timestamp makes of each text: the value
\* returned, None when the call raises, and the exception of the first call.
Outcomes(parsed_texts, s, e) ==
    /\ start_ns' = parsed_texts[s].value
    /\ end_ns' = parsed_texts[e].value
    /\ raised' = parsed_texts[s].raised

CallTimestamp ==
    /\ pc = "call"
    /\ Outcomes(ParsedTexts, start, end)
    /\ pc' = "returned"
    /\ UNCHANGED <<start, end, verbose, quiet, summary, has_issues,
                   line_number, line, parsed, results, failed_lines, output, exit_code>>

NextTimestamp == CallTimestamp

SpecTimestamp == InitTimestamp /\ [][NextTimestamp]_vars

-----------------------------------------------------------------------------
(* common/utils.py *)

\* f"{n:02d}" for an int n >= 0
TwoDigits(n) == IF Len(str(n)) < 2 THEN <<"0">> \o str(n) ELSE str(n)

\* f"{seconds:06.3f}" from the thousandths: at least two digits, the point, three digits.
ThreeDecimals(qr) ==
    TwoDigits(PyInt(FALSE, qr.q)) \o <<".">>
        \o [i \in 1..3 |-> DigitChar((Zeros(3 - Len(qr.r)) \o qr.r)[i])]

\* f"{hours:02d}:{minutes:02d}:{seconds:06.3f}": the double seconds is rounded
\* to the nearest thousandth, ties to even.
time_str(hours, minutes, seconds) ==
    TwoDigits(hours) \o <<":">> \o TwoDigits(minutes) \o <<":">>
        \o ThreeDecimals(MagDivMod(MagDivRoundHalfEven(MagMul(Numerator(seconds), <<1, 0, 0, 0>>),
                                                       Denominator(seconds)),
                                   <<1, 0, 0, 0>>))

\* ", ".join(parts): the days, when there are any, before the time of day
duration(days, time) ==
    IF days.mag = <<>> THEN time
    ELSE str(days) \o <<" ", "d", "a", "y">> \o (IF days.mag /= <<1>> THEN <<"s">> ELSE <<>>)
             \o <<",", " ">> \o time

\* The return statements: the reference, if there is one, after a space.
WithReference(text, reference) ==
    IF reference /= <<>> THEN text \o <<" ">> \o reference ELSE text

\* minutes and seconds from what is left of the hour
AfterHours(days, hours, m, reference) ==
    WithReference(duration(days, time_str(hours, m.floordiv, m.mod)), reference)

\* hours from what is left of the day
AfterDays(days, h, reference) ==
    AfterHours(days, h.floordiv, float_divmod(h.mod, <<6, 0>>), reference)

\* days from total_seconds
FromTotalSeconds(d, reference) ==
    AfterDays(d.floordiv, float_divmod(d.mod, <<3, 6, 0, 0>>), reference)

\* The text for the double abs_diff_ns; an int too large for a double is an
\* OverflowError of the division by 1e9.
FormatDouble(abs_diff_ns, reference) ==
    IF abs_diff_ns.kind = "inf" THEN Raised("OverflowError")
    ELSE Returned(FromTotalSeconds(
             float_divmod(DoubleOfRatio(Numerator(abs_diff_ns),
                                        MagMul(Denominator(abs_diff_ns), Pow10(9).mag)),
                          <<8, 6, 4, 0, 0>>),
             reference))

\* abs_diff_ns / 1e9, abs(difference_ns) // 86400 and so on, to the text
format_difference(difference_ns, reference) ==
    FormatDouble(DoubleOfInt(difference_ns.mag), reference)

-----------------------------------------------------------------------------
(* The duration text alone: format_difference applied to a difference and a reference *)

Nanos(n) == IntOf(n)

\* Magnitudes in nanoseconds: around a millisecond, a second, a minute, an
\* hour and a day, values whose seconds lie within half a millisecond below a
\* full minute, values beyond 2^53 and 2^63, and one too large for a double.
Magnitudes ==
    { Nanos(0), Nanos(1), Nanos(499999), Nanos(500000), Nanos(1500000), Nanos(2500000),
      Minus(Seconds(1), Nanos(500000)), Seconds(1), Plus(Seconds(1), Nanos(500000)),
      Minus(Seconds(60), Nanos(500001)), Minus(Seconds(60), Nanos(400000)), Seconds(60),
      Minus(Seconds(3600), Nanos(400000)), Seconds(3600),
      Minus(Seconds(86400), Nanos(400000)), Minus(Seconds(86400), Nanos(1)),
      Seconds(86400), Plus(Seconds(86400), Nanos(1)), TimesSmall(Seconds(86400), 2),
      Plus(TimesSmall(Seconds(86400), 3), Minus(Seconds(7200), Nanos(400000))),
      int(<<"1", "2", "3", "4", "5", "6", "7", "8", "9", "0", "1", "2", "3", "4", "5", "6", "7", "8">>).value,
      int(<<"9", "2", "2", "3", "3", "7", "2", "0", "3", "6", "8", "5", "4", "7", "7", "5", "8", "0", "7">>).value,
      Pow10(30), Pow10(318) }

\* Differences of both signs.
Differences == Magnitudes \cup { PyInt(TRUE, m.mag) : m \in Magnitudes }

\* The references check_timestamp passes, and none.
References ==
    { <<>>,
      <<"b", "e", "f", "o", "r", "e", " ", "s", "t", "a", "r", "t">>,
      <<"a", "f", "t", "e", "r", " ", "e", "n", "d">> }

\* start_ns holds the argument difference_ns and start the argument reference.
InitDifference ==
    /\ start_ns \in Differences
    /\ start \in References
    /\ pc = "call"
    /\ end = <<>> /\ end_ns = PyNone /\ raised = "none"
    /\ verbose = FALSE /\ quiet = FALSE
    /\ summary = NoSummary /\ has_issues = FALSE
    /\ line_number = 0 /\ line = BlankLine /\ parsed = NotCalled
    /\ results = <<>> /\ failed_lines = 0 /\ output = <<>> /\ exit_code = -1

\* The call ends: the text returned is the output, or an exception was raised.
FormatEnds(r) ==
    /\ output' = IF r.raised = "none" THEN <<r.value>> ELSE <<>>
    /\ raised' = r.raised

CallFormat ==
    /\ pc = "call"
    /\ FormatEnds(format_difference(start_ns, start))
    /\ pc' = "returned"
    /\ UNCHANGED <<start, end, verbose, quiet, start_ns, end_ns, summary, has_issues,
                   line_number, line, parsed, results, failed_lines, exit_code>>

NextDifference == CallFormat

SpecDifference == InitDifference /\ [][NextDifference]_vars

-----------------------------------------------------------------------------
(* The tool: main reading a stream of lines *)

\* Boundary arguments.
\* The texts given as --start and --end: an integer of seconds between spaces,
\* an integer, a float, an ISO 8601 instant equal to the integer, a float too
\* large for a double, and the empty text.
BoundaryTexts ==
    { <<" ", "5", " ">>,
      str(IntOf(7)),
      <<"6", ".", "5">>,
      <<"1", "9", "7", "0", "-", "0", "1", "-", "0", "1", "T",
        "0", "0", ":", "0", "0", ":", "0", "7", "Z">>,
      <<"1", ".", "0", "e", "4", "0", "0">>,
      <<>> }

\* parse_timestamp of each boundary text
ParsedBoundaries == [t \in BoundaryTexts |-> parse_timestamp(t)]

StreamLines ==
    { BlankLine,
      InvalidJsonLine,
      JsonLine(JArray(<<>>)),
      JsonLine(JObject([resourceLogs |-> JString(<<"x">>)])),
      JsonLine(JObject([other |-> JString(<<"x">>)])),
      Doc(<<Rec(6)>>),
      Doc(<<Rec(4)>>),
      Doc(<<Rec(8)>>),
      Doc(<<RecB>>),
      Doc(<<Rec(5), Rec(7)>>),
      Doc(<<Rec(6), JString(<<"x">>), Rec(4), Rec(8), RecB>>),
      Doc(<<JObject([timeUnixNano |-> JInt(Seconds(6))]),
            JObject([timeUnixNano |-> JString(<<"a", "b", "c">>)])>>) }

Init ==
    /\ start \in BoundaryTexts /\ end \in BoundaryTexts
    /\ verbose \in BOOLEAN /\ quiet \in BOOLEAN
    /\ pc = "main"
    /\ start_ns = PyNone /\ end_ns = PyNone /\ raised = "none"
    /\ summary = NoSummary /\ has_issues = FALSE
    /\ line_number = 0 /\ line = BlankLine /\ parsed = NotCalled
    /\ results = <<>> /\ failed_lines = 0 /\ output = <<>> /\ exit_code = -1

\* The try block of main, given what parse_timestamp makes of the two texts:
\* start_ns is assigned unless the first call raises, end_ns unless one of the
\* two does, and the first exception raised leaves the block.
TryParse(s, e) ==
    /\ start_ns' = IF s.raised = "none" THEN s.value ELSE PyNone
    /\ end_ns' = IF s.raised = "none" /\ e.raised = "none" THEN e.value ELSE PyNone
    /\ raised' = IF s.raised /= "none" THEN s.raised ELSE e.raised

\* main, "Parse time range arguments"
ParseRangeArguments ==
    /\ pc = "main"
    /\ TryParse(ParsedBoundaries[start], ParsedBoundaries[end])
    /\ pc' = "parsed"
    /\ UNCHANGED <<start, end, verbose, quiet, summary, has_issues,
                   line_number, line, parsed, results, failed_lines, output, exit_code>>

\* except TimestampParseError: sys.exit(2)
BoundaryUnparseable ==
    /\ pc = "parsed"
    /\ raised = "TimestampParseError"
    /\ pc' = "exited"
    /\ exit_code' = 2
    /\ UNCHANGED <<start, end, verbose, quiet, start_ns, end_ns, raised, summary, has_issues,
                   line_number, line, parsed, results, failed_lines, output>>

\* An exception of parse_timestamp that is not TimestampParseError leaves main:
\* the interpreter prints the traceback and the process ends with status 1.
BoundaryCrash ==
    /\ pc = "parsed"
    /\ raised \notin {"none", "TimestampParseError"}
    /\ pc' = "crashed"
    /\ exit_code' = 1
    /\ UNCHANGED <<start, end, verbose, quiet, start_ns, end_ns, raised, summary, has_issues,
                   line_number, line, parsed, results, failed_lines, output>>

\* if start_ns >= end_ns: sys.exit(2)
RangeRejected ==
    /\ pc = "parsed"
    /\ raised = "none"
    /\ RangeInvalid(start_ns, end_ns)
    /\ pc' = "exited"
    /\ exit_code' = 2
    /\ UNCHANGED <<start, end, verbose, quiet, start_ns, end_ns, raised, summary, has_issues,
                   line_number, line, parsed, results, failed_lines, output>>

\* main calls process_stream, which creates its Summary and enters the loop.
StartStream ==
    /\ pc = "parsed"
    /\ raised = "none"
    /\ ~RangeInvalid(start_ns, end_ns)
    /\ summary' = NoSummary
    /\ has_issues' = FALSE
    /\ pc' = "stream"
    /\ UNCHANGED <<start, end, verbose, quiet, start_ns, end_ns, raised, line_number, line,
                   parsed, results, failed_lines, output, exit_code>>

\* One iteration of the loop of process_stream over the next line l of stdin.
\* An exception that is not OTLPParseError leaves process_stream and main:
\* the interpreter prints the traceback and the process ends with status 1.
ProcessLine(l) ==
    /\ pc = "stream"
    /\ summary.total_lines < MaxLines
    /\ LET ln == line_number + 1
           p == parse_otlp_line(l, ln)
           st0 == [summary |-> [summary EXCEPT !.total_lines = @ + 1],
                   has_issues |-> has_issues, output |-> output, results |-> <<>>]
           st == IF p.raised = "none"
                 THEN ForRecords(st0, p.records, start_ns, end_ns, verbose, quiet)
                 ELSE IF p.raised = "OTLPParseError" THEN LineFailed(st0, ln, p, quiet)
                 ELSE st0
       IN  /\ line_number' = ln
           /\ line' = l
           /\ parsed' = p
           /\ summary' = st.summary
           /\ has_issues' = st.has_issues
           /\ output' = st.output
           /\ results' = st.results
           /\ failed_lines' = IF p.raised = "none" THEN failed_lines ELSE failed_lines + 1
           /\ IF p.raised \in {"none", "OTLPParseError"}
              THEN UNCHANGED <<pc, exit_code>>
              ELSE pc' = "crashed" /\ exit_code' = 1
    /\ UNCHANGED <<start, end, verbose, quiet, start_ns, end_ns, raised>>

\* The stream ends: process_stream returns, main prints the summary and exits.
EndOfStream ==
    /\ pc = "stream"
    /\ output' = Append(output, IF quiet THEN QuietSummary(summary) ELSE format_summary(summary))
    /\ exit_code' = IF has_issues THEN 1 ELSE 0
    /\ pc' = "exited"
    /\ UNCHANGED <<start, end, verbose, quiet, start_ns, end_ns, raised, summary, has_issues,
                   line_number, line, parsed, results, failed_lines>>

Next ==
    \/ ParseRangeArguments
    \/ BoundaryUnparseable
    \/ BoundaryCrash
    \/ RangeRejected
    \/ StartStream
    \/ \E l \in StreamLines : ProcessLine(l)
    \/ EndOfStream

Spec == Init /\ [][Next]_vars

-----------------------------------------------------------------------------
(* Properties of the extractor *)

IsJson(l) == l.kind = "json"
HasResourceLogs(l) ==
    IsJson(l) /\ l.doc.type = "object" /\ "resourceLogs" \in DOMAIN l.doc.fields
HasResourceLogsArray(l) ==
    HasResourceLogs(l) /\ l.doc.fields.resourceLogs.type = "array"

\* The array under key of element e, or nothing when e is not an object,
\* has no such key, or holds something else than an array there.
ArrayUnder(e, key) ==
    IF e.type = "object" /\ key \in DOMAIN e.fields /\ e.fields[key].type = "array"
    THEN e.fields[key].items
    ELSE <<>>

ElementAt(rl, p) == ArrayUnder(ArrayUnder(rl[p[1]], "scopeLogs")[p[2]], "logRecords")[p[3]]

\* Positions <<i, j, k>> of the objects found at resourceLogs[i].scopeLogs[j].logRecords[k].
RecordPaths(rl) ==
    UNION { UNION { { <<i, j, k>> :
                        k \in { k \in 1..Len(ArrayUnder(ArrayUnder(rl[i], "scopeLogs")[j], "logRecords")) :
                                  ElementAt(rl, <<i, j, k>>).type = "object" } }
                    : j \in 1..Len(ArrayUnder(rl[i], "scopeLogs")) }
            : i \in 1..Len(rl) }

\* Document order on positions.
Before(p, q) ==
    \/ p[1] < q[1]
    \/ p[1] = q[1] /\ p[2] < q[2]
    \/ p[1] = q[1] /\ p[2] = q[2] /\ p[3] < q[3]

\* Number of record positions that precede p.
Rank(rl, p) == Cardinality({ q \in RecordPaths(rl) : Before(q, p) })

\* An element of one of the three arrays that the walk has to skip.
IsMalformedResourceLog(e) ==
    \/ e.type /= "object"
    \/ "scopeLogs" \in DOMAIN e.fields /\ e.fields.scopeLogs.type /= "array"
IsMalformedScopeLog(e) ==
    \/ e.type /= "object"
    \/ "logRecords" \in DOMAIN e.fields /\ e.fields.logRecords.type /= "array"

\* C3 (as claimed): parse_otlp_line returns a list or raises OTLPParseError,
\* and it raises only for text that is not JSON or for a resourceLogs that is
\* present and not an array; every other valid JSON line, whatever the type of
\* its top-level value, returns a list.
C3_OneFailureMode ==
    pc = "returned" =>
        /\ parsed.raised \in {"none", "OTLPParseError"}
        /\ parsed.raised = "OTLPParseError" =>
               \/ (line.kind = "text" /\ ~IsBlank(line))
               \/ HasResourceLogs(line) /\ ~HasResourceLogsArray(line)

\* C8: the records of an accepted line carry record_index 0, 1, ..., n-1 in
\* list order, and the list is in document order: the record at list position
\* r is the object found at the r-th record position of the document, so a
\* skipped container or element leaves no gap.
C8_RecordIndexDense ==
    (pc = "returned" /\ parsed.raised = "none" /\ HasResourceLogsArray(line)) =>
        LET rl == line.doc.fields.resourceLogs.items
            records == parsed.records
        IN  /\ Len(records) = Cardinality(RecordPaths(rl))
            /\ \A i \in 1..Len(records) : records[i].record_index = i - 1
            /\ \A p \in RecordPaths(rl) :
                   records[Rank(rl, p) + 1].raw_data = ElementAt(rl, p)

\* C8 witness: two records in different resourceLogs entries with a skipped element between them.
C8_Witness ==
    /\ pc = "returned" /\ parsed.raised = "none" /\ HasResourceLogsArray(line)
    /\ Len(parsed.records) = 2
    /\ parsed.records[1].raw_data /= parsed.records[2].raw_data
    /\ Len(line.doc.fields.resourceLogs.items) = 3
    /\ IsMalformedResourceLog(line.doc.fields.resourceLogs.items[2])

\* C9: whenever resourceLogs is an array the line is accepted, whatever is
\* malformed inside it, and the number of records is the number of objects
\* found at resourceLogs[i].scopeLogs[j].logRecords[k]: a malformed branch
\* contributes nothing and takes nothing away from its siblings.
C9_MalformedBranchesSkipped ==
    (pc = "returned" /\ HasResourceLogsArray(line)) =>
        LET rl == line.doc.fields.resourceLogs.items
        IN  /\ parsed.raised = "none"
            /\ Len(parsed.records) = Cardinality(RecordPaths(rl))

\* C9 witness: a malformed scopeLogs element between two scope logs that each hold a record.
C9_Witness ==
    /\ pc = "returned" /\ HasResourceLogsArray(line)
    /\ Len(parsed.records) = 2
    /\ \E i \in 1..Len(line.doc.fields.resourceLogs.items) :
           LET sl == ArrayUnder(line.doc.fields.resourceLogs.items[i], "scopeLogs")
           IN  /\ Len(sl) = 3
               /\ IsMalformedScopeLog(sl[2])
               /\ sl[2].type = "object"

\* C10: an object whose resourceLogs is present and is not an array (string,
\* number, boolean, object or null) makes parse_otlp_line raise OTLPParseError,
\* and no record comes out of the line.
C10_NonArrayResourceLogsRejected ==
    (pc = "returned" /\ HasResourceLogs(line) /\ ~HasResourceLogsArray(line)) =>
        parsed.raised = "OTLPParseError" /\ parsed.records = <<>>

\* C10 witness: resourceLogs is null.
C10_Witness ==
    /\ pc = "returned" /\ HasResourceLogs(line)
    /\ line.doc.fields.resourceLogs.type = "null"
    /\ parsed.raised = "OTLPParseError"


WhitespaceOnly(l) == l.kind = "text" /\ \A i \in 1..Len(l.text) : l.text[i] \in Whitespace
ObjectWithoutResourceLogs(l) ==
    IsJson(l) /\ l.doc.type = "object" /\ "resourceLogs" \notin DOMAIN l.doc.fields

\* C11: an empty or whitespace-only line returns the empty list and no error,
\* and so does every JSON object that has no resourceLogs key.
C11_BlankAndForeignLinesEmpty ==
    (pc = "returned" /\ (WhitespaceOnly(line) \/ ObjectWithoutResourceLogs(line))) =>
        parsed = ParseReturned(<<>>)

\* C11 witness: a line of several whitespace characters has returned the empty list.
C11_Witness ==
    /\ pc = "returned" /\ WhitespaceOnly(line) /\ Len(line.text) > 1
    /\ parsed = ParseReturned(<<>>)

\* The JSON type of what a record holds under timeUnixNano; "missing" without the key.
TimeType(record) ==
    IF "timeUnixNano" \in DOMAIN record.raw_data.fields
    THEN record.raw_data.fields.timeUnixNano.type
    ELSE "missing"

\* C12 (as claimed): a record whose timeUnixNano is a JSON boolean, float,
\* array, object or null is returned with no timestamp.
C12_OtherTypesAbsent ==
    (pc = "returned" /\ parsed.raised = "none") =>
        \A i \in 1..Len(parsed.records) :
            TimeType(parsed.records[i]) \in {"bool", "float", "array", "object", "null"} =>
                parsed.records[i].time_unix_nano = PyNone

\* The decimal text of an integer: an optional minus and digits without a leading zero.
IsDecimalText(t) ==
    LET digits == IF t /= <<>> /\ Head(t) = "-" THEN Tail(t) ELSE t
    IN  /\ digits /= <<>> /\ \A i \in 1..Len(digits) : digits[i] \in Digit
        /\ (Len(digits) = 1 \/ digits[1] /= "0")
        /\ (digits = <<"0">> => t = digits)

\* The integer a decimal text denotes.
DecimalValue(t) ==
    IF Head(t) = "-" THEN PyInt(TRUE, DigitsOf(Tail(t))) ELSE PyInt(FALSE, DigitsOf(t))

\* C13 (as claimed): a record whose timeUnixNano is a JSON integer n, or a
\* string that is the decimal text of an integer n, is returned with the
\* timestamp n, unscaled, whatever the magnitude of n.
C13_NoUnitInference ==
    (pc = "returned" /\ parsed.raised = "none") =>
        \A i \in 1..Len(parsed.records) :
            LET record == parsed.records[i]
            IN  /\ TimeType(record) = "int" =>
                       record.time_unix_nano = record.raw_data.fields.timeUnixNano.n
                /\ (TimeType(record) = "string"
                      /\ IsDecimalText(record.raw_data.fields.timeUnixNano.s)) =>
                       record.time_unix_nano = DecimalValue(record.raw_data.fields.timeUnixNano.s)

-----------------------------------------------------------------------------
(* Properties of the tool *)

Present(t) == t.py /= "None"

\* The run has got past the argument checks into process_stream.
StreamEntered == pc = "stream" \/ line_number > 0 \/ (pc = "exited" /\ exit_code /= 2)

\* A boundary argument that parse_timestamp did not turn into a number.
BoundaryFails == raised /= "none"

\* Both boundaries are numbers and start_ns >= end_ns.
RangeEmpty == Present(start_ns) /\ Present(end_ns) /\ ~Less(start_ns, end_ns)

\* Records that were classified too_early, too_late or error so far.
RecordsWithIssue == summary.total_records - summary.in_range

\* C1: every record is classified as exactly one of in_range, too_early,
\* too_late, error: error iff the timestamp is absent, too_early iff it is
\* present and below start_ns, too_late iff present and above end_ns, in_range
\* iff present and start_ns <= timestamp <= end_ns (both ends included).
C1_Classification ==
    \A i \in 1..Len(results) :
        LET r == results[i]
            t == r.record.time_unix_nano
        IN  /\ r.status \in {"in_range", "too_early", "too_late", "error"}
            /\ r.status = "error" <=> ~Present(t)
            /\ r.status = "too_early" <=> (Present(t) /\ Less(t, start_ns))
            /\ r.status = "too_late" <=> (Present(t) /\ Less(end_ns, t))
            /\ r.status = "in_range" <=>
                   (Present(t) /\ ~Less(t, start_ns) /\ ~Less(end_ns, t))

\* C1 witness: a line with a record exactly at start_ns and one exactly at end_ns, both in range.
C1_Witness ==
    /\ Len(results) = 2
    /\ results[1].record.time_unix_nano = start_ns /\ results[1].status = "in_range"
    /\ results[2].record.time_unix_nano = end_ns /\ results[2].status = "in_range"
    /\ Less(start_ns, end_ns)

\* C2 (as claimed): a line whose extraction fails never ends process_stream:
\* it is counted as one error, gives no record, and the loop goes on, so that
\* every line read is accounted for in total_lines.
C2_FailedLineNeverAborts ==
    (line_number > 0 /\ parsed.raised /= "none") =>
        /\ pc /= "crashed"
        /\ results = <<>>
        /\ summary.errors >= failed_lines
        /\ summary.total_lines = line_number

C5_FatalBeforeInput ==
    /\ (BoundaryFails \/ RangeEmpty) =>
           /\ ~StreamEntered
           /\ line_number = 0 /\ parsed = NotCalled /\ results = <<>>
           /\ summary = NoSummary /\ output = <<>>
    /\ StreamEntered =>
           /\ ~BoundaryFails
           /\ start_ns = ParsedBoundaries[start].value
           /\ end_ns = ParsedBoundaries[end].value
           /\ Less(start_ns, end_ns)

\* C5 witness: the run has exited with 2 on two boundaries that normalize to the same instant.
C5_Witness ==
    /\ pc = "exited" /\ exit_code = 2
    /\ ~BoundaryFails
    /\ start /= end /\ start_ns = end_ns

\* C6: while process_stream runs and after it returned, the four outcome
\* counters add up to the records extracted plus the lines whose extraction
\* failed, and the three range counters never exceed the records extracted.
C6_CountersAddUp ==
    pc \in {"stream", "exited"} =>
        /\ summary.in_range + summary.too_early + summary.too_late + summary.errors
               = summary.total_records + failed_lines
        /\ summary.in_range + summary.too_early + summary.too_late <= summary.total_records

\* C6 witness: records of all four outcomes and a failed line have been counted.
C6_Witness ==
    /\ pc = "stream"
    /\ summary.in_range > 0 /\ summary.too_early > 0 /\ summary.too_late > 0
    /\ failed_lines > 0 /\ summary.errors > failed_lines

\* C7: has_issues is true exactly when too_early + too_late + errors > 0 (so
\* it is false for an empty stream and while every record was in range), and
\* once true it stays true.
C7_HasIssues ==
    /\ [](has_issues <=> (summary.too_early + summary.too_late + summary.errors > 0))
    /\ [][has_issues => has_issues']_vars

\* C7 witness: has_issues is still set after a later line whose records are all in range.
C7_Witness ==
    /\ has_issues /\ line_number >= 2
    /\ Len(results) > 0
    /\ \A i \in 1..Len(results) : results[i].status = "in_range"


\* A log record without timeUnixNano, or with a string there that int() refuses.
HasBadTimestamp(log_record) ==
    \/ "timeUnixNano" \notin DOMAIN log_record.fields
    \/ /\ log_record.fields.timeUnixNano.type = "string"
       /\ int(log_record.fields.timeUnixNano.s).raised /= "none"

\* The log record objects of a line, in document order.
RecordObjects(l) ==
    LET rl == l.doc.fields.resourceLogs.items
    IN  [r \in 1..Cardinality(RecordPaths(rl)) |->
            ElementAt(rl, CHOOSE p \in RecordPaths(rl) : Rank(rl, p) = r - 1)]

BadAmong(objects) == Cardinality({r \in 1..Len(objects) : HasBadTimestamp(objects[r])})

\* C14: a log record whose timeUnixNano is missing or is a string that does
\* not convert never fails the line: the line is extracted, the record is
\* there with its index in document order and no timestamp, it is classified
\* error, and it adds one to total_records and to errors and nothing to
\* in_range, too_early and too_late.
C14_BadTimestampCountsAsError ==
    [][(pc = "stream" /\ line_number' = line_number + 1 /\ HasResourceLogsArray(line')
          /\ BadAmong(RecordObjects(line')) > 0) =>
        LET objects == RecordObjects(line')
        IN  /\ parsed'.raised = "none"
            /\ Len(parsed'.records) = Len(objects) /\ Len(results') = Len(objects)
            /\ \A r \in 1..Len(objects) :
                   HasBadTimestamp(objects[r]) =>
                       /\ parsed'.records[r] = LogRecord(PyNone, line_number', r - 1, objects[r])
                       /\ results'[r].record = parsed'.records[r]
                       /\ results'[r].status = "error"
            /\ summary'.total_records = summary.total_records + Len(objects)
            /\ summary'.errors = summary.errors + BadAmong(objects)
            /\ summary'.in_range + summary'.too_early + summary'.too_late
                   = summary.in_range + summary.too_early + summary.too_late
                     + (Len(objects) - BadAmong(objects))]_vars

\* C14 witness: the second record of a line holds a string that does not
\* convert and was classified error, after a first record that is in range.
C14_Witness ==
    /\ pc = "stream" /\ Len(results) = 2
    /\ results[1].status = "in_range"
    /\ results[2].status = "error"
    /\ TimeType(results[2].record) = "string"
    /\ results[2].record.record_index = 1
    /\ summary.total_records = 2 /\ summary.errors = 1 /\ summary.in_range = 1

\* A step of the loop of process_stream that does not leave it by an exception.
LineProcessed == pc = "stream" /\ pc' = "stream" /\ line_number' = line_number + 1

\* What the step has appended to the output.
NewOutput == SubSeq(output', Len(output) + 1, Len(output'))

\* Where the renderings of records among the entries point to.
RecordsEchoed(entries) ==
    LET echoed == SelectSeq(entries, LAMBDA o : o.kind = "record")
    IN  [i \in 1..Len(echoed) |-> echoed[i].at]

\* The records of the line that the two flags let through.
RecordsToEcho(classified, v, q) ==
    LET chosen == SelectSeq(classified, LAMBDA r : ~q /\ (v \/ r.status /= "in_range"))
    IN  [i \in 1..Len(chosen) |->
            [line_number |-> chosen[i].record.line_number,
             record_index |-> chosen[i].record.record_index]]

HowMany(classified, status) ==
    Cardinality({i \in 1..Len(classified) : classified[i].status = status})

\* The counters after a line with the given classified records, failed or not.
CountersAfter(sm, classified, failed) ==
    [total_lines |-> sm.total_lines + 1,
     total_records |-> sm.total_records + Len(classified),
     in_range |-> sm.in_range + HowMany(classified, "in_range"),
     too_early |-> sm.too_early + HowMany(classified, "too_early"),
     too_late |-> sm.too_late + HowMany(classified, "too_late"),
     errors |-> sm.errors + HowMany(classified, "error") + (IF failed THEN 1 ELSE 0)]

AloneFrom(p, s_ns, e_ns) ==
    LET st0 == [summary |-> [NoSummary EXCEPT !.total_lines = 1],
                has_issues |-> FALSE, output |-> <<>>, results |-> <<>>]
    IN  IF p.raised = "none"
        THEN ForRecords(st0, p.records, s_ns, e_ns, FALSE, FALSE)
        ELSE LineFailed(st0, 1, p, FALSE)

Alone(l, s_ns, e_ns) == AloneFrom(parse_otlp_line(l, 1), s_ns, e_ns)

\* The step adds the contribution c to the counters and to has_issues.
Contributes(c) ==
    /\ \A k \in DOMAIN summary : summary'[k] = summary[k] + c.summary[k]
    /\ has_issues' = (has_issues \/ c.has_issues)

\* C19: what a line adds to the six counters and to has_issues is what it
\* gives when it is the only line of the stream, whatever was read before it
\* and wherever it stands; the result is therefore a sum over the lines,
\* the same for every ordering of them.
C19_OrderIndependent ==
    [][LineProcessed => Contributes(Alone(line', start_ns, end_ns))]_vars

\* C19 witness: two lines were read, both gave records, and records of
\* three different outcomes were counted.
C19_Witness ==
    /\ pc = "stream" /\ line_number = 2 /\ failed_lines = 0
    /\ 0 < Len(results) /\ Len(results) < summary.total_records
    /\ summary.in_range > 0 /\ summary.errors > 0
    /\ summary.too_early + summary.too_late > 0

\* The messages about records and about failed lines among the entries, each
\* as the line and the record it names; a failed line names no record.
Messages(entries) ==
    LET named == SelectSeq(entries, LAMBDA o : o.kind \in {"record", "line_error"})
    IN  [i \in 1..Len(named) |->
            IF named[i].kind = "record" THEN named[i].at
            ELSE [line_number |-> named[i].line_number, record_index |-> -1]]

Precedes(a, b) ==
    \/ a.line_number < b.line_number
    \/ a.line_number = b.line_number /\ a.record_index < b.record_index

\* The messages emitted so far are in strictly increasing order and name lines read so far.
MessagesOrdered ==
    LET m == Messages(output)
    IN  /\ \A i \in 1..Len(m) : m[i].line_number \in 1..line_number /\ m[i].record_index >= -1
        /\ \A i \in 1..(Len(m) - 1) : Precedes(m[i], m[i + 1])

\* C20: the messages about records and failed lines appear in strictly
\* increasing (line_number, record_index) order, and line_number is the
\* position of the line in the stream, counted from 1: the messages of a
\* step name the line just read, which is line total_lines of the stream,
\* and are appended after everything emitted before.
C20_OutputInDocumentOrder ==
    /\ []MessagesOrdered
    /\ [][LineProcessed =>
            /\ SubSeq(output', 1, Len(output)) = output
            /\ \A i \in 1..Len(Messages(NewOutput)) :
                   Messages(NewOutput)[i].line_number = summary'.total_lines]_vars

\* C20 witness: messages about two records of line 1 and about a record of line 2 were emitted.
C20_Witness ==
    /\ pc = "stream" /\ line_number = 2
    /\ \E i \in 1..(Len(Messages(output)) - 2) :
           /\ Messages(output)[i].line_number = 1
           /\ Messages(output)[i + 1].line_number = 1
           /\ Messages(output)[i + 1].record_index > Messages(output)[i].record_index
           /\ Messages(output)[i + 2] = [line_number |-> 2, record_index |-> 0]

-----------------------------------------------------------------------------
(* Properties of the normalizer *)

Ten(k) == MulPow10(IntOf(1), k)

\* The nanoseconds of an integer v by its magnitude: seconds below 10^10,
\* milliseconds below 10^13, nanoseconds from there on.
ExpectedNanoseconds(v) ==
    IF Less(v, Ten(10)) THEN MulPow10(v, 9)
    ELSE IF Less(v, Ten(13)) THEN MulPow10(v, 6)
    ELSE v

\* C15 (as claimed): for every text that is the decimal text of an integer v,
\* parse_timestamp returns exactly v * 10^9 when v < 10^10, v * 10^6 when
\* 10^10 <= v < 10^13, and v when v >= 10^13.
C15_IntegerBoundaryExact ==
    (pc = "returned" /\ IsDecimalText(start)) =>
        /\ raised = "none"
        /\ start_ns = ExpectedNanoseconds(DecimalValue(start))

\* C16 (as claimed): parse_timestamp returns an integer or raises
\* TimestampParseError, and nothing else, for every text.
C16_OneFailureMode ==
    pc = "returned" =>
        \/ raised = "none" /\ start_ns.py = "int"
        \/ raised = "TimestampParseError" /\ start_ns = PyNone

\* A bare date YYYY-MM-DD.
IsBareDate(t) ==
    /\ Len(t) = 10
    /\ \A i \in {1, 2, 3, 4, 6, 7, 9, 10} : t[i] \in Digit
    /\ t[5] = "-" /\ t[8] = "-"

\* Whether t ends in +hh:mm or -hh:mm.
EndsInOffset(t) ==
    /\ Len(t) >= 6
    /\ t[Len(t) - 5] \in {"+", "-"}
    /\ \A i \in {Len(t) - 4, Len(t) - 3, Len(t) - 1, Len(t)} : t[i] \in Digit
    /\ t[Len(t) - 2] = ":"

\* A date-time: a date, the separator T in either case, and more text, with
\* no trailing Z and no +hh:mm or -hh:mm offset.
IsNaiveDateTime(t) ==
    /\ Len(t) > 11
    /\ IsBareDate(SubSeq(t, 1, 10))
    /\ t[11] \in {"T", "t"}
    /\ t[Len(t)] /= "Z"
    /\ ~EndsInOffset(t)

\* C17 (as claimed): a bare date D parses as D followed by T00:00:00Z, and a
\* date-time S without trailing Z and without +hh:mm or -hh:mm offset parses
\* as S followed by Z: both calls return the same integer or both fail.
C17_DefaultsToUtc ==
    pc = "returned" =>
        /\ (IsBareDate(start) /\ end = start \o Midnight) => start_ns = end_ns
        /\ (IsNaiveDateTime(start) /\ end = start \o <<"Z">>) => start_ns = end_ns

-----------------------------------------------------------------------------
(* Properties of the duration text *)

\* The text returned, without the reference and the space before it.
DurationText ==
    IF start = <<>> THEN output[1]
    ELSE SubSeq(output[1], 1, Len(output[1]) - Len(start) - 1)

\* The last twelve characters, HH:MM:SS.mmm, and what stands before them.
ClockText == SubSeq(DurationText, Len(DurationText) - 11, Len(DurationText))
DayPrefix == SubSeq(DurationText, 1, Len(DurationText) - 12)

TwoDigitValue(t, i) == 10 * DigitValue(t[i]) + DigitValue(t[i + 1])

\* HH:MM:SS.mmm with HH up to 23, MM up to 59 and SS up to 59.
ClockInRange(t) ==
    /\ \A i \in {1, 2, 4, 5, 7, 8, 10, 11, 12} : t[i] \in Digit
    /\ t[3] = ":" /\ t[6] = ":" /\ t[9] = "."
    /\ TwoDigitValue(t, 1) <= 23
    /\ TwoDigitValue(t, 4) <= 59
    /\ TwoDigitValue(t, 7) <= 59

\* "D day, " for D = 1 and "D days, " for a larger D.
IsDayPrefix(t) ==
    \E n \in 1..(Len(t) - 6) :
        /\ \A i \in 1..n : t[i] \in Digit
        /\ t[1] /= "0"
        /\ SubSeq(t, n + 1, Len(t)) =
               (IF SubSeq(t, 1, n) = <<"1">>
                THEN <<" ", "d", "a", "y", ",", " ">>
                ELSE <<" ", "d", "a", "y", "s", ",", " ">>)

\* |d| is a day or more.
AtLeastOneDay(d) == ~MagLess(d.mag, Seconds(86400).mag)

\* C21 (as claimed): for every difference d, of either sign, format_difference
\* returns [D day(s), ]HH:MM:SS.mmm, followed by the reference if there is
\* one: the day prefix is there iff |d| is a day or more, reads "1 day" iff
\* D = 1, HH is at most 23, MM at most 59, and the seconds shown are at most
\* 59.999, never 60.000.
C21_DurationComponentsInRange ==
    pc = "returned" =>
        /\ raised = "none"
        /\ Len(output) = 1 /\ Len(DurationText) >= 12
        /\ start /= <<>> =>
               SubSeq(output[1], Len(DurationText) + 1, Len(output[1])) = <<" ">> \o start
        /\ ClockInRange(ClockText)
        /\ IF AtLeastOneDay(start_ns) THEN IsDayPrefix(DayPrefix) ELSE DayPrefix = <<>>

\* C22 (as claimed): a text that is the decimal text of a negative integer v,
\* of any magnitude, is read as seconds: parse_timestamp raises nothing and
\* returns v * 10^9.
C22_NegativeReadAsSeconds ==
    (pc = "returned" /\ IsDecimalText(start) /\ Head(start) = "-") =>
        /\ raised = "none"
        /\ start_ns = MulPow10(DecimalValue(start), 9)
====
